---- MODULE Spec2Model ----
(***************************************************************************)
(* Model of the repository: the PatientTable and Navbar components, the   *)
(* file-structure validator of the pre-commit hook, two rules of the       *)
(* ESLint plugin, AppLayout, AppRoutes and the store template (in this     *)
(* order, after the script), and first of all                              *)
(* scripts/sync-rules.js, the rules synchronisation script: it             *)
(* reads AI_INSTRUCTIONS.md and docs/rules/*.md and regenerates            *)
(* .github/copilot-instructions.md, replit.md and .cursor/rules/*.mdc.     *)
(*                                                                         *)
(* Text is a sequence of tokens.  A token is one character ("a", "#", " ", *)
(* "\n") or one whole marker / template fragment, written as the very      *)
(* string the script uses.  A marker therefore has length 1 in the model,  *)
(* where the script adds '<!-- SYNC_START -->'.length.                     *)
(***************************************************************************)
EXTENDS Integers, Sequences, FiniteSets, TLC

VARIABLES
    canon,          \* AI_INSTRUCTIONS.md on disk: [exists, text]
    topicFile,      \* docs/rules/<file> on disk, per entry of RULE_FILES
    fs,             \* the output files on disk: path -> [exists, text]
    dirs,           \* the output directories that exist
    failing,        \* the output paths on which fs.writeFileSync throws
    clock,          \* the value new Date() returns
    pc,             \* position of the invocation in syncRules
    exitCode,       \* process exit code, -1 while the process runs
    metadata,       \* const metadata (syncRules)
    coreStandards,  \* const coreStandards (syncRules)
    rules,          \* const rules (syncRules): the loaded topics
    ri,             \* the render-and-write step that runs next (1..4)
    ti,             \* index of the next element of rules.forEach (line 337)
    written,        \* paths written by this invocation
    made,           \* directories created by this invocation
    runs,           \* invocations started so far
    prev,           \* inputs and outputs at the end of the previous invocation
    ops,            \* the render-and-write operations of syncRules, one by one
    table,          \* a mounted PatientTable: props, rendered cells, callbacks
    navbar,         \* a mounted Navbar: props, state, router location, callbacks
    hook,           \* one run of the file-structure validator
    lint,           \* one run of a rule of eslint-plugin-project-rules on one file
    layout,         \* a mounted AppLayout: its two pieces of state
    router,         \* the router: the location and what AppRoutes renders for it
    store,          \* a mounted StoreProvider: state, queued updates, history
    viewport        \* the breakpoint of the browser window

vars == <<canon, topicFile, fs, dirs, failing, clock, pc, exitCode, metadata,
          coreStandards, rules, ri, ti, written, made, runs, prev,
          ops, table, navbar, hook, lint, layout, router, store, viewport>>

\* The state of the synchronisation script.
Script == <<canon, topicFile, fs, dirs, failing, clock, pc, exitCode, metadata,
            coreStandards, rules, ri, ti, written, made, runs, prev, ops>>

\* The state of the components beside the synchronisation script.
Components == <<table, navbar, hook, lint, layout, router, store, viewport>>

(***************************************************************************)
(* Bounds of the model.                                                    *)
(***************************************************************************)
MaxCanonLen == 5    \* tokens in a canonical document (extraction)
MaxTopicLen == 4    \* characters in a topic file (per-topic rendering)
MaxTopics == 2      \* entries of RULE_FILES taken into the model
MaxRuns == 2        \* invocations of the script in one behaviour
MaxClock == 2       \* last clock tick; two ticks make a calendar day
MaxRows == 2        \* patients passed to a PatientTable
MaxEvents == 3      \* clicks and key presses on one mounted component
MaxStaged == 2      \* files staged for one commit

(***************************************************************************)
(* Constants of the script.                                                *)
(***************************************************************************)
SYNC_START == "<!-- SYNC_START -->"
SYNC_END == "<!-- SYNC_END -->"
INCLUDE_START == "<!-- INCLUDE_RULES:START -->"
INCLUDE_END == "<!-- INCLUDE_RULES:END -->"
VERSION_MARKER == "<!-- VERSION: 2.0.0 -->"
LAST_UPDATED_MARKER == "<!-- LAST_UPDATED: 2024-01-15 -->"

\* Paths relative to ROOT_DIR, as sequences of components.
ROOT_DIR == <<>>
COPILOT_FILE == <<".github", "copilot-instructions.md">>
REPLIT_FILE == <<"replit.md">>
CURSOR_RULES_DIR == <<".cursor", "rules">>

RULE_FILES ==
    << [file |-> "component-standards.md", name |-> "Component Standards",
        key |-> "component-standards"],
       [file |-> "folder-structure.md", name |-> "Folder Structure",
        key |-> "folder-structure"],
       [file |-> "testing.md", name |-> "Testing", key |-> "testing"],
       [file |-> "routing.md", name |-> "Routing", key |-> "routing"],
       [file |-> "state-management.md", name |-> "State Management",
        key |-> "state-management"],
       [file |-> "api-integration.md", name |-> "API Integration",
        key |-> "api-integration"],
       [file |-> "ai-tool-integration.md", name |-> "AI Tool Integration",
        key |-> "ai-tool-integration"] >>

\* The entries of RULE_FILES the model iterates over, in declaration order.
Topics == 1..(IF MaxTopics < Len(RULE_FILES) THEN MaxTopics ELSE Len(RULE_FILES))

(***************************************************************************)
(* Files.                                                                  *)
(***************************************************************************)
NoFile == [exists |-> FALSE, text |-> <<>>]
File(t) == [exists |-> TRUE, text |-> t]

\* All texts of at most n tokens over the alphabet A.
Texts(A, n) == UNION {[1..k -> A] : k \in 0..n}

(***************************************************************************)
(* String primitives of JavaScript, on token sequences.                    *)
(***************************************************************************)
Min(S) == CHOOSE x \in S : \A y \in S : x <= y
Max(S) == CHOOSE x \in S : \A y \in S : x >= y

\* String.prototype.indexOf: 0-based position of the first tok, or -1.
IndexOf(s, tok) ==
    LET hits == {i \in 1..Len(s) : s[i] = tok}
    IN  IF hits = {} THEN -1 ELSE Min(hits) - 1

\* String.prototype.substring: both ends clamped to [0, length], and
\* swapped when the first exceeds the second.
Clamp(i, n) == IF i < 0 THEN 0 ELSE IF i > n THEN n ELSE i
Substring(s, a, b) ==
    LET ca == Clamp(a, Len(s))
        cb == Clamp(b, Len(s))
        lo == IF ca <= cb THEN ca ELSE cb
        hi == IF ca <= cb THEN cb ELSE ca
    IN  SubSeq(s, lo + 1, hi)

IsSpace(c) == c \in {" ", "\n"}

\* Variant: trim left out.
TrimNothing(s) == s

\* String.prototype.trim.
Trim(s) ==
    LET solid == {i \in 1..Len(s) : ~IsSpace(s[i])}
    IN  IF solid = {} THEN <<>> ELSE SubSeq(s, Min(solid), Max(solid))

\* s.replace(/<!-- INCLUDE_RULES:START -->[\s\S]*?<!-- INCLUDE_RULES:END -->/g, ''):
\* every leftmost, shortest region from a start marker to the next end marker
\* is removed, the scan resuming after the removed region.
RECURSIVE RemoveIncludeRegions(_)
RemoveIncludeRegions(s) ==
    IF s = <<>> THEN <<>>
    ELSE LET ends == {j \in 2..Len(s) : s[j] = INCLUDE_END}
         IN  IF Head(s) = INCLUDE_START /\ ends # {}
             THEN RemoveIncludeRegions(SubSeq(s, Min(ends) + 1, Len(s)))
             ELSE <<Head(s)>> \o RemoveIncludeRegions(Tail(s))

(***************************************************************************)
(* extractCoreStandards (lines 51-65).  The result is the returned string, *)
(* or the thrown Error.                                                    *)
(***************************************************************************)
\* Variant: only the start marker is looked for before the text is cut.
extractCoreStandardsNoEndCheck(content) ==
    LET syncStart == IndexOf(content, SYNC_START)
        syncEnd == IndexOf(content, SYNC_END)
    IN  IF syncStart = -1
        THEN [threw |-> TRUE, value |-> <<>>]
        ELSE [threw |-> FALSE,
              value |-> Trim(RemoveIncludeRegions(
                            Trim(Substring(content, syncStart + 1, syncEnd))))]

extractCoreStandards(content) ==
    LET syncStart == IndexOf(content, SYNC_START)
        syncEnd == IndexOf(content, SYNC_END)
    IN  IF syncStart = -1 \/ syncEnd = -1
        THEN [threw |-> TRUE, value |-> <<>>]
        ELSE [threw |-> FALSE,
              value |-> Trim(RemoveIncludeRegions(
                            Trim(Substring(content, syncStart + 1, syncEnd))))]

(***************************************************************************)
(* new Date().toISOString(): the date, "T", the time of day.               *)
(***************************************************************************)
toISOString(t) == <<"date-" \o ToString(t \div 2), "T", "time-" \o ToString(t % 2)>>

(***************************************************************************)
(* extractMetadata (lines 38-46); now is the value of new Date().          *)
(***************************************************************************)
\* Variant: the captured values are used only when both markers are found.
extractMetadataBothOrNone(content, now) ==
    LET versionMatch == IndexOf(content, VERSION_MARKER) # -1
        lastUpdatedMatch == IndexOf(content, LAST_UPDATED_MARKER) # -1
        both == versionMatch /\ lastUpdatedMatch
    IN  [version |-> IF both THEN "2.0.0" ELSE "1.0.0",
         lastUpdated |-> IF both THEN "2024-01-15" ELSE toISOString(now)[1]]

extractMetadata(content, now) ==
    LET versionMatch == IndexOf(content, VERSION_MARKER) # -1
        lastUpdatedMatch == IndexOf(content, LAST_UPDATED_MARKER) # -1
    IN  [version |-> IF versionMatch THEN "2.0.0" ELSE "1.0.0",
         lastUpdated |-> IF lastUpdatedMatch THEN "2024-01-15"
                         ELSE toISOString(now)[1]]

(***************************************************************************)
(* generateMdcContent (lines 94-114).                                      *)
(***************************************************************************)
Frontmatter(description) ==
    <<"---\n", "description: ">> \o description \o
    <<"\n", "globs: '*.ts,*.tsx,*.js,*.jsx'\n", "alwaysApply: true\n", "---\n", "\n">>

\* lines.slice(1).join('\n') for lines = content.split('\n'): what follows
\* the first newline, nothing when there is none.
AfterFirstLine(content) ==
    LET nl == IndexOf(content, "\n")
    IN  IF nl = -1 THEN <<>> ELSE SubSeq(content, nl + 2, Len(content))

\* lines[0].startsWith('# ')
FirstLineIsTitle(content) ==
    Len(content) >= 2 /\ content[1] = "#" /\ content[2] = " "

\* Variant: any heading line is taken for the title (the test of line 105
\* alone).
StripAnyHeading(ruleContent) ==
    LET content == Trim(ruleContent)
    IN  IF content # <<>> /\ Head(content) = "#"
        THEN Trim(AfterFirstLine(content))
        ELSE content

StripTitle(ruleContent) ==
    LET content == Trim(ruleContent)
    IN  IF content # <<>> /\ Head(content) = "#" /\ FirstLineIsTitle(content)
        THEN Trim(AfterFirstLine(content))
        ELSE content

generateMdcContent(ruleContent, ruleName, description) ==
    Frontmatter(description) \o StripTitle(ruleContent)

(***************************************************************************)
(* The three aggregate renderers (lines 119-278).  Template text is one    *)
(* token per fragment between two interpolations.                          *)
(***************************************************************************)
GENERATED_BANNER ==
    "**IMPORTANT: This file is auto-generated from AI_INSTRUCTIONS.md and docs/rules/*.md. Do not edit manually.**\n\n"
CURSOR_BANNER ==
    "**IMPORTANT: This rule aligns with AI_INSTRUCTIONS.md as the single source of truth.**\n\n"
MARKDOWN_TRAILER ==
    "- Full Rules: docs/README.md\n\n## When in Doubt\n\n...\n\n## Single Source of Truth\n\n...\n"
CURSOR_TRAILER ==
    "\n## When in Doubt\n\n...\n\n## Single Source of Truth\n\n...\n"

\* rules.forEach(rule => { if (rule.content) content += <line of rule> })
RECURSIVE Flatten(_)
Flatten(ss) == IF ss = <<>> THEN <<>> ELSE Head(ss) \o Flatten(Tail(ss))

\* lines[i] is the line the callback appends for rs[i].
ForEachRule(rs, lines) ==
    Flatten([i \in 1..Len(rs) |->
                IF rs[i].content # <<>> THEN lines[i] ELSE <<>>])

MarkdownLink(rule) ==
    <<"- **", rule.name, "**: [docs/rules/", rule.file, "](docs/rules/", rule.file, ")\n">>
MarkdownRef(rule) == <<"- ", rule.name, ": docs/rules/", rule.file, "\n">>
CursorSee(rule) ==
    <<"- **", rule.name, "**: See .cursor/rules/", rule.key, ".mdc\n">>
CursorFrom(rule) ==
    <<"- **", rule.name, "**: .cursor/rules/", rule.key, ".mdc (from docs/rules/",
      rule.file, ")\n">>

\* Variant: the core standards are appended after the two lists.
MarkdownInstructionsCoreLast(title, core, rs, md, now) ==
    <<title, GENERATED_BANNER, "**Rules Version:** ", md.version,
      "  \n**Last Updated:** ">> \o toISOString(now) \o <<"\n\n">>
    \o <<"\n\n## Detailed Rules\n\nFor comprehensive guidelines, refer to the following rule files in docs/rules/:\n\n">>
    \o ForEachRule(rs, [i \in 1..Len(rs) |-> MarkdownLink(rs[i])])
    \o <<"- **Full Rules**: [docs/README.md](docs/rules/README.md)\n\n## Quick Reference\n\nFor detailed guidelines with examples and checklists:\n\n">>
    \o ForEachRule(rs, [i \in 1..Len(rs) |-> MarkdownRef(rs[i])])
    \o <<MARKDOWN_TRAILER>>
    \o core

\* The body shared, word for word, by lines 122-166 and lines 177-221.
MarkdownInstructions(title, core, rs, md, now) ==
    <<title, GENERATED_BANNER, "**Rules Version:** ", md.version,
      "  \n**Last Updated:** ">> \o toISOString(now) \o <<"\n\n">>
    \o core
    \o <<"\n\n## Detailed Rules\n\nFor comprehensive guidelines, refer to the following rule files in docs/rules/:\n\n">>
    \o ForEachRule(rs, [i \in 1..Len(rs) |-> MarkdownLink(rs[i])])
    \o <<"- **Full Rules**: [docs/README.md](docs/rules/README.md)\n\n## Quick Reference\n\nFor detailed guidelines with examples and checklists:\n\n">>
    \o ForEachRule(rs, [i \in 1..Len(rs) |-> MarkdownRef(rs[i])])
    \o <<MARKDOWN_TRAILER>>

generateCopilotInstructions(core, rs, md, now) ==
    MarkdownInstructions("# GitHub Copilot Instructions\n\n", core, rs, md, now)

\* Variant: the Replit document carries the core standards last.
generateReplitInstructionsCoreLast(core, rs, md, now) ==
    MarkdownInstructionsCoreLast("# Replit AI Instructions\n\n", core, rs, md, now)

generateReplitInstructions(core, rs, md, now) ==
    MarkdownInstructions("# Replit AI Instructions\n\n", core, rs, md, now)

\* Variant: the Cursor main file carries the time of generation as well.
generateCursorMainRulesDated(core, rs, md) ==
    Frontmatter(<<"Project-wide development standards and rules for React TypeScript development">>)
    \o <<"# Project Rules for AI Code Generation\n\n", CURSOR_BANNER,
         "**Last Updated:** ">> \o toISOString(clock) \o <<"\n\n">>
    \o core
    \o <<"\n\n## Quick Reference\n\nFor detailed guidelines with examples and checklists, refer to the individual rule files in this directory:\n\n">>
    \o ForEachRule(rs, [i \in 1..Len(rs) |-> CursorSee(rs[i])])
    \o <<"\n## Detailed Rules\n\nThe following individual rule files contain comprehensive guidelines:\n\n">>
    \o ForEachRule(rs, [i \in 1..Len(rs) |-> CursorFrom(rs[i])])
    \o <<CURSOR_TRAILER>>

generateCursorMainRules(core, rs, md) ==
    Frontmatter(<<"Project-wide development standards and rules for React TypeScript development">>)
    \o <<"# Project Rules for AI Code Generation\n\n", CURSOR_BANNER>>
    \o core
    \o <<"\n\n## Quick Reference\n\nFor detailed guidelines with examples and checklists, refer to the individual rule files in this directory:\n\n">>
    \o ForEachRule(rs, [i \in 1..Len(rs) |-> CursorSee(rs[i])])
    \o <<"\n## Detailed Rules\n\nThe following individual rule files contain comprehensive guidelines:\n\n">>
    \o ForEachRule(rs, [i \in 1..Len(rs) |-> CursorFrom(rs[i])])
    \o <<CURSOR_TRAILER>>

(***************************************************************************)
(* The state of each part of the repository before it is used.             *)
(***************************************************************************)
\* The render-and-write operations of lines 320-341: 1 the Copilot file, 2
\* the Replit file, 3 the Cursor main file, 3 + i the i-th loaded topic.
OpIds == 1..(3 + Cardinality(Topics))
NoOps == [o \in OpIds |-> [st |-> "idle", content |-> <<>>]]

\* No PatientTable is mounted.
NoTable ==
    [patients |-> <<>>, onRowClick |-> FALSE, timeZone |-> "UTC", mounted |-> FALSE,
     cells |-> <<>>, calls |-> <<>>, threw |-> FALSE, events |-> 0,
     event |-> [type |-> "none", row |-> 0, key |-> "", defaultPrevented |-> FALSE]]

\* No Navbar is mounted.
NoNavbar ==
    [onMenuClick |-> FALSE, menuOpen |-> "undefined", isMobile |-> FALSE,
     internalMenuAnchor |-> FALSE, location |-> "/", calls |-> 0, events |-> 0,
     event |-> [type |-> "none", key |-> "", path |-> "", defaultPrevented |-> FALSE]]

\* The file-structure validator has not been started.
NoHook ==
    [index |-> <<>>, gitFails |-> FALSE, pc |-> "NotStarted", exitCode |-> -1,
     stagedFiles |-> <<>>, allErrors |-> <<>>]

\* No lint rule runs: the closure variables of create(context) as declared.
NoLint ==
    [rule |-> "none", file |-> <<>>, queue |-> <<>>, componentName |-> <<>>,
     hasProps |-> FALSE, hasMemo |-> FALSE, isExport |-> FALSE, reports |-> {}]

\* No AppLayout is mounted.
NoLayout ==
    [mounted |-> FALSE, sidebarOpen |-> FALSE, navbarMenuOpen |-> FALSE, events |-> 0,
     event |-> [type |-> "none", key |-> "", path |-> ""],
     before |-> [sidebarOpen |-> FALSE, navbarMenuOpen |-> FALSE]]

\* The router is at "/" and nothing was resolved yet.
NoRouter ==
    [location |-> "/", page |-> "Home", requested |-> "", via |-> "none", key |-> "",
     from |-> "/", redirected |-> FALSE, events |-> 0]

\* No StoreProvider is mounted.
NULL == "<null>"

\* The initial state of the store (lines 38-42).
InitialStoreState == [data |-> NULL, loading |-> FALSE, error |-> NULL]

NoStore ==
    [mounted |-> FALSE, state |-> InitialStoreState, pending |-> <<>>,
     last |-> InitialStoreState, flushed |-> 0]

\* The lint rules, the layout, the router and the store are idle, on a wide
\* window.
LaterIdle ==
    /\ lint = NoLint
    /\ layout = NoLayout
    /\ router = NoRouter
    /\ store = NoStore
    /\ viewport = "lg"

(***************************************************************************)
(* The output paths and writeFile (lines 82-89).                           *)
(***************************************************************************)
CursorMainPath == CURSOR_RULES_DIR \o <<"project-standards.mdc">>

\* Variant: every topic is written to one and the same file.
CursorRulePathShared(key) == CURSOR_RULES_DIR \o <<"rule.mdc">>

CursorRulePath(key) == CURSOR_RULES_DIR \o <<key \o ".mdc">>

OutPaths ==
    {COPILOT_FILE, REPLIT_FILE, CursorMainPath}
    \cup {CursorRulePath(RULE_FILES[i].key) : i \in Topics}

\* path.dirname
Dirname(filePath) == SubSeq(filePath, 1, Len(filePath) - 1)

\* fs.mkdirSync(dir, { recursive: true })
MkdirRecursive(ds, dir) == ds \cup {SubSeq(dir, 1, k) : k \in 0..Len(dir)}

\* Variant: the catch reports the error and the process ends with code 0.
AbortExitZero ==
    /\ pc' = "Aborted"
    /\ exitCode' = 0
    /\ UNCHANGED <<ri, ti>>

\* The process ends in the catch of lines 354-360, or in process.exit(1) of
\* line 290.
Abort ==
    /\ pc' = "Aborted"
    /\ exitCode' = 1
    /\ UNCHANGED <<ri, ti>>

\* Variant: the content is appended to what the file holds (appendFileSync).
writeFileAppend(filePath, content, nextRi, nextTi) ==
    LET dir == Dirname(filePath)
        after == IF dir \notin dirs THEN MkdirRecursive(dirs, dir) ELSE dirs
    IN  /\ dirs' = after
        /\ made' = made \cup (after \ dirs)
        /\ IF filePath \in failing
           THEN /\ UNCHANGED <<fs, written>>
                /\ Abort
           ELSE /\ fs' = [fs EXCEPT ![filePath] = File(fs[filePath].text \o content)]
                /\ written' = written \cup {filePath}
                /\ ri' = nextRi
                /\ ti' = nextTi
                /\ UNCHANGED <<pc, exitCode>>

\* writeFile(filePath, content), then control moves on to step nextRi,
\* element nextTi.  The directory is made before the write is attempted; a
\* write that throws leaves the file as it was and ends the process.
writeFile(filePath, content, nextRi, nextTi) ==
    LET dir == Dirname(filePath)
        after == IF dir \notin dirs THEN MkdirRecursive(dirs, dir) ELSE dirs
    IN  /\ dirs' = after
        /\ made' = made \cup (after \ dirs)
        /\ IF filePath \in failing
           THEN /\ UNCHANGED <<fs, written>>
                /\ Abort
           ELSE /\ fs' = [fs EXCEPT ![filePath] = File(content)]
                /\ written' = written \cup {filePath}
                /\ ri' = nextRi
                /\ ti' = nextTi
                /\ UNCHANGED <<pc, exitCode>>

(***************************************************************************)
(* syncRules (lines 283-351) and the top-level try/catch (lines 354-360).  *)
(***************************************************************************)
Inputs == <<canon, topicFile, failing, clock, runs, prev>>

\* Lines 287-291: readFile returns null for an unreadable file, and an empty
\* file is falsy as well.
ReadCanonical ==
    /\ pc = "NotStarted"
    /\ IF ~canon.exists \/ canon.text = <<>>
       THEN Abort
       ELSE pc' = "Loaded" /\ UNCHANGED <<exitCode, ri, ti>>
    /\ UNCHANGED <<ops, Components, Inputs, fs, dirs, metadata, coreStandards, rules, written, made>>

\* Lines 294-299.
ExtractStep ==
    /\ pc = "Loaded"
    /\ metadata' = extractMetadata(canon.text, clock)
    /\ LET r == extractCoreStandards(canon.text)
       IN  IF r.threw
           THEN Abort /\ UNCHANGED coreStandards
           ELSE /\ coreStandards' = r.value
                /\ pc' = "Extracted"
                /\ UNCHANGED <<exitCode, ri, ti>>
    /\ UNCHANGED <<ops, Components, Inputs, fs, dirs, rules, written, made>>

\* Lines 302-316: the topics whose file reads as a non-empty string, in the
\* order of RULE_FILES.
Loaded(i) == topicFile[i].exists /\ topicFile[i].text # <<>>

\* Variant: each loaded topic is put in front of the list (unshift for push).
RECURSIVE ReadRulesUnshift(_)
ReadRulesUnshift(n) ==
    IF n = 0 THEN <<>>
    ELSE (IF Loaded(n)
          THEN <<[file |-> RULE_FILES[n].file, name |-> RULE_FILES[n].name,
                  key |-> RULE_FILES[n].key, content |-> topicFile[n].text]>>
          ELSE <<>>)
         \o ReadRulesUnshift(n - 1)

RECURSIVE ReadRules(_)
ReadRules(n) ==
    IF n = 0 THEN <<>>
    ELSE ReadRules(n - 1) \o
         (IF Loaded(n)
          THEN <<[file |-> RULE_FILES[n].file, name |-> RULE_FILES[n].name,
                  key |-> RULE_FILES[n].key, content |-> topicFile[n].text]>>
          ELSE <<>>)

LoadRules ==
    /\ pc = "Extracted"
    /\ rules' = ReadRules(Cardinality(Topics))
    /\ pc' = "Rendering"
    /\ ri' = 1
    /\ UNCHANGED <<ops, Components, Inputs, fs, dirs, exitCode, metadata, coreStandards, ti, written, made>>

\* Lines 320-323.
GenCopilot ==
    /\ pc = "Rendering" /\ ri = 1
    /\ writeFile(COPILOT_FILE,
                 generateCopilotInstructions(coreStandards, rules, metadata, clock), 2, ti)
    /\ UNCHANGED <<ops, Components, Inputs, metadata, coreStandards, rules>>

\* Lines 325-328.
GenReplit ==
    /\ pc = "Rendering" /\ ri = 2
    /\ writeFile(REPLIT_FILE,
                 generateReplitInstructions(coreStandards, rules, metadata, clock), 3, ti)
    /\ UNCHANGED <<ops, Components, Inputs, metadata, coreStandards, rules>>

\* Lines 330-333.
GenCursorMain ==
    /\ pc = "Rendering" /\ ri = 3
    /\ writeFile(CursorMainPath,
                 generateCursorMainRules(coreStandards, rules, metadata), 4, 1)
    /\ UNCHANGED <<ops, Components, Inputs, metadata, coreStandards, rules>>

\* Lines 337-341, one element of rules.forEach.
RuleDescription(rule) == <<rule.name, " rules for React TypeScript development">>

GenCursorRule ==
    /\ pc = "Rendering" /\ ri = 4 /\ ti <= Len(rules)
    /\ LET rule == rules[ti]
       IN  writeFile(CursorRulePath(rule.key),
                     generateMdcContent(rule.content, rule.name, RuleDescription(rule)),
                     4, ti + 1)
    /\ UNCHANGED <<ops, Components, Inputs, metadata, coreStandards, rules>>

\* Lines 343-351: syncRules returns and the process ends with code 0.
Finish ==
    /\ pc = "Rendering" /\ ri = 4 /\ ti > Len(rules)
    /\ pc' = "Done"
    /\ exitCode' = 0
    /\ UNCHANGED <<ops, Components, Inputs, fs, dirs, metadata, coreStandards, rules, ri, ti, written, made>>

\* One invocation of the script.
Run ==
    \/ ReadCanonical
    \/ ExtractStep
    \/ LoadRules
    \/ GenCopilot
    \/ GenReplit
    \/ GenCursorMain
    \/ GenCursorRule
    \/ Finish

(***************************************************************************)
(* The environment.  Between two invocations time passes, and each input   *)
(* file is left alone, deleted or (a topic file) written anew.             *)
(***************************************************************************)
TOPIC_SAMPLE == <<"#", " ", "t", "\n", "\n", "a", "\n">>

NoMetadata == [version |-> "", lastUpdated |-> ""]

\* The process as it starts.
Fresh ==
    /\ pc = "NotStarted"
    /\ exitCode = -1
    /\ metadata = NoMetadata
    /\ coreStandards = <<>>
    /\ rules = <<>>
    /\ ri = 0
    /\ ti = 0
    /\ written = {}
    /\ made = {}

Rerun ==
    /\ pc \in {"Done", "Aborted"}
    /\ runs < MaxRuns
    /\ runs' = runs + 1
    /\ prev' = [ran |-> TRUE, exitCode |-> exitCode, fs |-> fs, canon |-> canon,
                topicFile |-> topicFile, clock |-> clock]
    /\ clock' \in (clock + 1)..MaxClock
    /\ canon' \in {canon, NoFile}
    /\ topicFile' \in [Topics -> {NoFile, File(TOPIC_SAMPLE)}]
    /\ pc' = "NotStarted"
    /\ exitCode' = -1
    /\ metadata' = NoMetadata
    /\ coreStandards' = <<>>
    /\ rules' = <<>>
    /\ ri' = 0
    /\ ti' = 0
    /\ written' = {}
    /\ made' = {}
    /\ UNCHANGED <<ops, Components, fs, dirs, failing>>

Next == Run \/ Rerun

(***************************************************************************)
(* Initial states.                                                         *)
(***************************************************************************)
CANON_SAMPLES ==
    { <<>>,
      <<"a">>,
      <<SYNC_START, "a">>,
      <<SYNC_START, SYNC_END>>,
      <<SYNC_START, "a", SYNC_END>>,
      <<SYNC_END, "a", SYNC_START>>,
      <<VERSION_MARKER, "\n", SYNC_START, "\n", "a", INCLUDE_START, "a", INCLUDE_END,
        "\n", SYNC_END, "a">> }

NoPrev ==
    [ran |-> FALSE, exitCode |-> -1, fs |-> [p \in OutPaths |-> NoFile],
     canon |-> NoFile, topicFile |-> [i \in Topics |-> NoFile], clock |-> 0]

\* A fresh checkout: no output exists yet, and the first invocation starts.
InitOutputs ==
    /\ fs = [p \in OutPaths |-> NoFile]
    /\ dirs = {ROOT_DIR}
    /\ clock = 0
    /\ runs = 1
    /\ prev = NoPrev
    /\ Fresh
    /\ ops = NoOps
    /\ table = NoTable
    /\ navbar = NoNavbar
    /\ hook = NoHook
    /\ LaterIdle

Init ==
    /\ canon \in {NoFile} \cup {File(t) : t \in CANON_SAMPLES}
    /\ topicFile \in [Topics -> {NoFile, File(<<>>), File(TOPIC_SAMPLE)}]
    /\ failing = {}
    /\ InitOutputs

Spec == Init /\ [][Next]_vars

\* The same script on a disk where the write to one output path fails.
InitFault ==
    /\ canon \in {NoFile} \cup {File(t) : t \in CANON_SAMPLES}
    /\ topicFile \in [Topics -> {NoFile, File(TOPIC_SAMPLE)}]
    /\ failing \in {{p} : p \in OutPaths}
    /\ InitOutputs

SpecFault == InitFault /\ [][Next]_vars

\* One invocation on short canonical documents, on a disk where at most one
\* write fails.  The script is one synchronous call chain (lines 283-360):
\* no statement waits, so an invocation that has a next statement executes it.
InitCourse ==
    /\ canon \in {NoFile, File(<<"a">>), File(<<SYNC_START, "a", SYNC_END>>)}
    /\ topicFile \in [Topics -> {NoFile, File(TOPIC_SAMPLE)}]
    /\ failing \in {{}} \cup {{p} : p \in OutPaths}
    /\ InitOutputs

SpecCourse == InitCourse /\ [][Run]_vars /\ WF_vars(Run)

\* extractCoreStandards on every canonical document within the bound.
CanonAlphabet == {SYNC_START, SYNC_END, INCLUDE_START, INCLUDE_END, "a", " "}

InitExtract ==
    /\ canon \in {File(t) : t \in Texts(CanonAlphabet, MaxCanonLen)}
    /\ topicFile = [i \in Topics |-> NoFile]
    /\ failing = {}
    /\ InitOutputs

SpecExtract == InitExtract /\ [][ReadCanonical \/ ExtractStep]_vars

\* generateMdcContent on every topic file within the bound.
TopicAlphabet == {"#", " ", "\n", "a"}

InitMdc ==
    /\ canon = File(<<SYNC_START, "a", SYNC_END>>)
    /\ topicFile \in {[i \in Topics |-> IF i = 1 THEN File(t) ELSE File(TOPIC_SAMPLE)] :
                         t \in Texts(TopicAlphabet, MaxTopicLen)}
    /\ failing = {}
    /\ InitOutputs

SpecMdc == InitMdc /\ [][Run]_vars

(***************************************************************************)
(* The render-and-write operations of lines 320-341, each taken as a unit  *)
(* of its own: operation o renders its text (Render), then writes it       *)
(* (Write), and the operations are scheduled in any order, one's rendering *)
(* and writing interleaved with the others', while time passes (Tick).     *)
(***************************************************************************)
OpCount == 3 + Len(rules)

OpPath(o) ==
    CASE o = 1 -> COPILOT_FILE
      [] o = 2 -> REPLIT_FILE
      [] o = 3 -> CursorMainPath
      [] OTHER -> CursorRulePath(rules[o - 3].key)

\* The text operation o renders when new Date() returns now (lines 120, 175).
OpContent(o, now) ==
    CASE o = 1 -> generateCopilotInstructions(coreStandards, rules, metadata, now)
      [] o = 2 -> generateReplitInstructions(coreStandards, rules, metadata, now)
      [] o = 3 -> generateCursorMainRules(coreStandards, rules, metadata)
      [] OTHER -> generateMdcContent(rules[o - 3].content, rules[o - 3].name,
                                     RuleDescription(rules[o - 3]))

Render(o) ==
    /\ pc = "Rendering"
    /\ o <= OpCount
    /\ ops[o].st = "idle"
    /\ ops' = [ops EXCEPT ![o] = [st |-> "rendered", content |-> OpContent(o, clock)]]
    /\ UNCHANGED <<Components, Inputs, fs, dirs, pc, exitCode, metadata, coreStandards,
                   rules, ri, ti, written, made>>

Write(o) ==
    /\ pc = "Rendering"
    /\ o <= OpCount
    /\ ops[o].st = "rendered"
    /\ writeFile(OpPath(o), ops[o].content, ri, ti)
    /\ ops' = [ops EXCEPT ![o].st = "written"]
    /\ UNCHANGED <<Components, Inputs, metadata, coreStandards, rules>>

Tick ==
    /\ pc = "Rendering"
    /\ clock < MaxClock
    /\ clock' = clock + 1
    /\ UNCHANGED <<Components, ops, canon, topicFile, failing, runs, prev, fs, dirs, pc,
                   exitCode, metadata, coreStandards, rules, ri, ti, written, made>>

\* Lines 343-351, once every operation has written its file.
FinishAll ==
    /\ pc = "Rendering"
    /\ \A o \in 1..OpCount : ops[o].st = "written"
    /\ pc' = "Done"
    /\ exitCode' = 0
    /\ UNCHANGED <<Components, ops, Inputs, fs, dirs, metadata, coreStandards, rules,
                   ri, ti, written, made>>

NextAnyOrder ==
    \/ ReadCanonical
    \/ ExtractStep
    \/ LoadRules
    \/ \E o \in OpIds : Render(o)
    \/ \E o \in OpIds : Write(o)
    \/ Tick
    \/ FinishAll

\* The outputs of an earlier invocation, made from other inputs.
OLD_OUTPUT == File(<<"a">>)

\* The disk as the invocation finds it: no output yet, or every output in
\* place; prev.fs keeps the outputs as they were found.
InitAnyOrder ==
    /\ canon = File(<<VERSION_MARKER, SYNC_START, "a", SYNC_END>>)
    /\ topicFile \in [Topics -> {NoFile, File(TOPIC_SAMPLE)}]
    /\ failing = {}
    /\ \/ /\ fs = [p \in OutPaths |-> NoFile]
          /\ dirs = {ROOT_DIR}
       \/ /\ fs = [p \in OutPaths |-> OLD_OUTPUT]
          /\ dirs = UNION {MkdirRecursive({}, Dirname(p)) : p \in OutPaths}
    /\ prev = [NoPrev EXCEPT !.fs = fs]
    /\ clock = 0
    /\ runs = 1
    /\ Fresh
    /\ ops = NoOps
    /\ table = NoTable
    /\ navbar = NoNavbar
    /\ hook = NoHook
    /\ LaterIdle

SpecAnyOrder == InitAnyOrder /\ [][NextAnyOrder]_vars

\* extractMetadata on every arrangement of markers within the bound, at any
\* time of any day.  VERSION_LIKE is a comment that the pattern of line 39
\* does not match ("v2" is not made of digits and dots).
VERSION_LIKE == "<!-- VERSION: v2 -->"
MetaAlphabet == {VERSION_MARKER, LAST_UPDATED_MARKER, VERSION_LIKE, SYNC_START, SYNC_END}

InitMeta ==
    /\ canon \in {File(t) : t \in Texts(MetaAlphabet, MaxCanonLen)}
    /\ topicFile = [i \in Topics |-> NoFile]
    /\ failing = {}
    /\ fs = [p \in OutPaths |-> NoFile]
    /\ dirs = {ROOT_DIR}
    /\ clock \in 0..MaxClock
    /\ runs = 1
    /\ prev = NoPrev
    /\ Fresh
    /\ ops = NoOps
    /\ table = NoTable
    /\ navbar = NoNavbar
    /\ hook = NoHook
    /\ LaterIdle

SpecMeta == InitMeta /\ [][ReadCanonical \/ ExtractStep]_vars

(***************************************************************************)
(* Properties.                                                             *)
(***************************************************************************)
Range(s) == {s[i] : i \in 1..Len(s)}

HasStart == IndexOf(canon.text, SYNC_START) # -1
HasEnd == IndexOf(canon.text, SYNC_END) # -1
StartBeforeEnd == IndexOf(canon.text, SYNC_START) < IndexOf(canon.text, SYNC_END)

\* The canonical file is readable and holds both markers, start first.
ValidCanon == canon.exists /\ HasStart /\ HasEnd /\ StartBeforeEnd

\* The canonical file cannot be read, or a marker is missing.
BadCanon == ~canon.exists \/ ~HasStart \/ ~HasEnd

\* The tokens strictly between the first start marker and the first end
\* marker of a valid canonical document.
Between ==
    SubSeq(canon.text, IndexOf(canon.text, SYNC_START) + 2,
           IndexOf(canon.text, SYNC_END))

\* Token i of b lies in an include-placeholder region: an include start
\* marker at or before it, no include end marker in between, and an include
\* end marker at or after it.
InIncludeRegion(b, i) ==
    \E p \in 1..i :
        /\ b[p] = INCLUDE_START
        /\ \A k \in (p + 1)..(i - 1) : b[k] # INCLUDE_END
        /\ \E q \in i..Len(b) : q > p /\ b[q] = INCLUDE_END

\* C1: extractCoreStandards fails (the run aborts) whenever a marker is absent
\* or the end marker precedes the start marker, and returns a block only when
\* both are present with the start marker first.
C1_FailsUnlessOrdered ==
    (canon.exists /\ canon.text # <<>>) =>
        /\ (pc = "Extracted" => HasStart /\ HasEnd /\ StartBeforeEnd)
        /\ (pc = "Aborted" => ~(HasStart /\ HasEnd /\ StartBeforeEnd))

\* C2: when the canonical file cannot be read or a marker is missing, the run
\* never gets past extraction, ends with a non-zero exit code, and has written
\* no output file and created no directory.
C2_AbortWritesNothing ==
    BadCanon =>
        /\ pc \in {"NotStarted", "Loaded", "Aborted"}
        /\ exitCode # 0
        /\ (pc = "Aborted" => exitCode = 1)
        /\ written = {}
        /\ made = {}
        /\ fs = prev.fs

C2_Witness ==
    /\ pc = "Aborted"
    /\ canon.exists /\ canon.text # <<>>
    /\ HasStart /\ ~HasEnd
    /\ exitCode = 1

\* C5 as stated: every document with both markers, start first, yields a
\* non-empty string.
C5_AlwaysNonEmpty ==
    (ValidCanon /\ pc = "Extracted") => coreStandards # <<>>

\* C5 amended: for a document with both markers, start first, the returned
\* string is non-empty exactly when some non-whitespace text between the
\* markers lies outside every include-placeholder region.
C5_NonEmptyIffSolidText ==
    (ValidCanon /\ pc = "Extracted") =>
        (coreStandards # <<>>
            <=> \E i \in 1..Len(Between) :
                    ~IsSpace(Between[i]) /\ ~InIncludeRegion(Between, i))

C5_Witness ==
    /\ ValidCanon /\ pc = "Extracted"
    /\ coreStandards # <<>>
    /\ \E i \in 1..Len(Between) : InIncludeRegion(Between, i)

\* C6: the string extractCoreStandards returns for a valid document contains
\* no core-standards marker and no include-placeholder marker.
C6_NoMarkersInResult ==
    (ValidCanon /\ pc = "Extracted") =>
        Range(coreStandards)
            \cap {SYNC_START, SYNC_END, INCLUDE_START, INCLUDE_END} = {}

\* The topics of the model whose file is on disk with content, in the order
\* of declaration.
RECURSIVE PresentUpTo(_)
PresentUpTo(n) ==
    IF n = 0 THEN <<>>
    ELSE PresentUpTo(n - 1)
         \o (IF topicFile[n].exists /\ topicFile[n].text # <<>> THEN <<n>> ELSE <<>>)

PresentTopics == PresentUpTo(Cardinality(Topics))

AllNames == {RULE_FILES[i].name : i \in 1..Len(RULE_FILES)}
IsTopicName(tok) == tok \in AllNames

\* The display names a document mentions, in the order it mentions them.
NamesIn(doc) == SelectSeq(doc, IsTopicName)

NamesOf(idx) == [k \in 1..Len(idx) |-> RULE_FILES[idx[k]].name]

AggregatePaths == {COPILOT_FILE, REPLIT_FILE, CursorMainPath}

\* C3: with a valid canonical document the run does not abort whichever
\* topic files are missing; when it is done the exit code is 0 and each of the
\* three aggregate files names exactly the loaded topics, in declaration order
\* (once in each of its two lists), and nothing of a topic that was not loaded.
C3_IndexListsLoadedTopics ==
    ValidCanon =>
        /\ pc # "Aborted"
        /\ pc = "Done" =>
            /\ exitCode = 0
            /\ \A p \in AggregatePaths :
                /\ fs[p].exists
                /\ NamesIn(fs[p].text) = NamesOf(PresentTopics) \o NamesOf(PresentTopics)
                /\ \A i \in Topics \ Range(PresentTopics) :
                       Range(fs[p].text)
                           \cap {RULE_FILES[i].name, RULE_FILES[i].file, RULE_FILES[i].key} = {}

C3_Witness ==
    /\ ValidCanon /\ pc = "Done" /\ exitCode = 0
    /\ \E i \in Topics : ~topicFile[i].exists
    /\ \E i \in Topics : topicFile[i].exists /\ i > 1 /\ ~topicFile[1].exists
    /\ Len(PresentTopics) >= 1

\* The output paths this invocation is to write: the three aggregate files
\* and one file per loaded topic.
DuePaths == AggregatePaths \cup {CursorRulePath(rules[k].key) : k \in 1..Len(rules)}

\* C4: the render-and-write steps are independent: when the process has
\* ended after rendering began, every output whose own write did not fail has
\* been written.
C4_RenderersIndependent ==
    (pc \in {"Done", "Aborted"} /\ ri >= 1) =>
        \A p \in DuePaths \ failing : p \in written

\* C9: after a completed run the per-topic files in .cursor/rules are exactly
\* those of the topics loaded in that run.
C9_RuleFilesMatchLoadedTopics ==
    pc = "Done" =>
        \A i \in Topics :
            fs[CursorRulePath(RULE_FILES[i].key)].exists <=> i \in Range(PresentTopics)

\* The text with the timestamp that follows "Last Updated:" left out.
LAST_UPDATED_LABEL == "  \n**Last Updated:** "
WithoutTimestamp(doc) ==
    LET k == IndexOf(doc, LAST_UPDATED_LABEL) + 1
    IN  IF k = 0 THEN doc
        ELSE SubSeq(doc, 1, k) \o SubSeq(doc, k + 1 + Len(toISOString(0)), Len(doc))

\* This invocation had the inputs of the previous, completed one, on the
\* same calendar day.
SameInputsAgain ==
    /\ prev.ran /\ prev.exitCode = 0
    /\ prev.canon = canon /\ prev.topicFile = topicFile
    /\ toISOString(prev.clock)[1] = toISOString(clock)[1]

\* C10: a second run with identical inputs on the same day leaves every
\* output file byte-identical, but for the timestamp in the Copilot and the
\* Replit file.
C10_SecondRunIdentical ==
    (pc = "Done" /\ SameInputsAgain) =>
        \A p \in OutPaths :
            /\ fs[p].exists = prev.fs[p].exists
            /\ IF p \in {COPILOT_FILE, REPLIT_FILE}
               THEN WithoutTimestamp(fs[p].text) = WithoutTimestamp(prev.fs[p].text)
               ELSE fs[p].text = prev.fs[p].text

C10_Witness ==
    /\ pc = "Done" /\ SameInputsAgain
    /\ Len(rules) >= 1
    /\ fs[COPILOT_FILE].text # prev.fs[COPILOT_FILE].text
    /\ fs[CursorMainPath].exists

\* From position from on, doc lists the loaded topics in declaration order,
\* each display name followed by a path of that topic (its file under
\* docs/rules or its .mdc file under .cursor/rules).
HasIndexFrom(doc, from) ==
    LET rest == SubSeq(doc, from, Len(doc))
        n == Len(PresentTopics)
    IN  /\ Len(NamesIn(rest)) >= n
        /\ SubSeq(NamesIn(rest), 1, n) = NamesOf(PresentTopics)
        /\ \A k \in 1..Len(rest) : \A i \in 1..Len(RULE_FILES) :
               rest[k] = RULE_FILES[i].name =>
                   /\ k + 2 <= Len(rest)
                   /\ rest[k + 2] \in {RULE_FILES[i].file, RULE_FILES[i].key}

\* doc holds the core-standards block verbatim at some position from start
\* on, and the index after it.
HasCoreThenIndex(doc, start) ==
    \E c \in start..(Len(doc) + 1) :
        /\ c + Len(coreStandards) - 1 <= Len(doc)
        /\ SubSeq(doc, c, c + Len(coreStandards) - 1) = coreStandards
        /\ HasIndexFrom(doc, c + Len(coreStandards))

\* Banner, then version, then timestamp, then core block, then index.
HasFullStructure(doc, banner) ==
    \E b \in 1..Len(doc) :
        /\ doc[b] = banner
        /\ \E v \in (b + 1)..Len(doc) :
            /\ doc[v] = metadata.version
            /\ \E t \in (v + 1)..Len(doc) :
                /\ t + 2 <= Len(doc)
                /\ SubSeq(doc, t, t + 2) = toISOString(clock)
                /\ HasCoreThenIndex(doc, t + 3)

\* Banner, then core block, then index; no version and no timestamp.
HasUndatedStructure(doc, banner) ==
    /\ \E b \in 1..Len(doc) : doc[b] = banner /\ HasCoreThenIndex(doc, b + 1)
    /\ metadata.version \notin Range(doc)
    /\ Range(toISOString(clock)) \cap Range(doc) = {}

\* C7 as stated: each of the three aggregate documents holds, in this order,
\* a banner, the version and the timestamp, the core block and the index.
C7_AllThreeCarryMetadata ==
    /\ COPILOT_FILE \in written => HasFullStructure(fs[COPILOT_FILE].text, GENERATED_BANNER)
    /\ REPLIT_FILE \in written => HasFullStructure(fs[REPLIT_FILE].text, GENERATED_BANNER)
    /\ CursorMainPath \in written => HasFullStructure(fs[CursorMainPath].text, CURSOR_BANNER)

\* C7 amended: the Copilot and the Replit document hold, in this order, the
\* generated-file banner, the version and the timestamp, the core block and
\* the index; the Cursor main document holds its banner, the core block and
\* the index in this order, and neither the version nor a timestamp.
C7_MarkdownCarryMetadataCursorNone ==
    /\ COPILOT_FILE \in written => HasFullStructure(fs[COPILOT_FILE].text, GENERATED_BANNER)
    /\ REPLIT_FILE \in written => HasFullStructure(fs[REPLIT_FILE].text, GENERATED_BANNER)
    /\ CursorMainPath \in written => HasUndatedStructure(fs[CursorMainPath].text, CURSOR_BANNER)

C7_Witness ==
    /\ AggregatePaths \subseteq written
    /\ coreStandards # <<>>
    /\ metadata.version = "2.0.0"
    /\ Len(PresentTopics) = 1
    /\ ~topicFile[1].exists

\* The frontmatter block of a per-topic file, token by token.
ExpectedFrontmatter(name) ==
    <<"---\n", "description: ", name, " rules for React TypeScript development", "\n",
      "globs: '*.ts,*.tsx,*.js,*.jsx'\n", "alwaysApply: true\n", "---\n", "\n">>

RECURSIVE DropLeadingSpace(_)
DropLeadingSpace(s) ==
    IF s # <<>> /\ IsSpace(Head(s)) THEN DropLeadingSpace(Tail(s)) ELSE s

RECURSIVE DropTrailingSpace(_)
DropTrailingSpace(s) ==
    IF s # <<>> /\ IsSpace(s[Len(s)])
    THEN DropTrailingSpace(SubSeq(s, 1, Len(s) - 1))
    ELSE s

Stripped(s) == DropTrailingSpace(DropLeadingSpace(s))

StartsWithTitle(s) == Len(s) >= 2 /\ SubSeq(s, 1, 2) = <<"#", " ">>

\* s without its first line: what follows the first newline.
RECURSIVE WithoutFirstLine(_)
WithoutFirstLine(s) ==
    IF s = <<>> THEN <<>>
    ELSE IF Head(s) = "\n" THEN Tail(s)
    ELSE WithoutFirstLine(Tail(s))

\* The per-topic file of topic i was written by this invocation.
RuleWritten(i) == CursorRulePath(RULE_FILES[i].key) \in written
RuleText(i) == fs[CursorRulePath(RULE_FILES[i].key)].text

\* C8 as stated: the per-topic output is the frontmatter followed by the
\* original content, less its first line when that line starts with "# ".
C8_BodyIsOriginalLessTitle ==
    \A i \in Topics :
        RuleWritten(i) =>
            RuleText(i) = ExpectedFrontmatter(RULE_FILES[i].name)
                          \o (IF StartsWithTitle(topicFile[i].text)
                              THEN WithoutFirstLine(topicFile[i].text)
                              ELSE topicFile[i].text)

\* C8 amended: the per-topic output is the frontmatter and a blank line,
\* followed by the original content stripped of surrounding whitespace and,
\* when the stripped content starts with "# ", less its first line and
\* stripped once more.
C8_BodyIsStrippedLessTitle ==
    \A i \in Topics :
        RuleWritten(i) =>
            RuleText(i) = ExpectedFrontmatter(RULE_FILES[i].name)
                          \o (IF StartsWithTitle(Stripped(topicFile[i].text))
                              THEN Stripped(WithoutFirstLine(Stripped(topicFile[i].text)))
                              ELSE Stripped(topicFile[i].text))

C8_Witness ==
    /\ RuleWritten(1)
    /\ topicFile[1].text = <<"#", " ", "\n", "a">>
    /\ RuleText(1) = ExpectedFrontmatter(RULE_FILES[1].name) \o <<"a">>

(***************************************************************************)
(* Metadata.                                                               *)
(***************************************************************************)
\* The date of the day on which the invocation runs, as YYYY-MM-DD.
Today == toISOString(clock)[1]

\* Line 294 has run: the canonical file was read as a non-empty string.
MetadataExtracted == pc \in {"Extracted", "Aborted"} /\ canon.text # <<>>

\* C12: each field of the metadata is, by itself, the value its marker
\* carries when that marker is in the document and the default ("1.0.0",
\* the date of today) when it is not; and the invocation is aborted only for
\* the sake of the SYNC markers, never because a metadata marker is missing.
C12_EachFieldCapturedOrDefault ==
    MetadataExtracted =>
        /\ metadata.version =
               IF VERSION_MARKER \in Range(canon.text) THEN "2.0.0" ELSE "1.0.0"
        /\ metadata.lastUpdated =
               IF LAST_UPDATED_MARKER \in Range(canon.text) THEN "2024-01-15" ELSE Today
        /\ (pc = "Aborted" <=> ~(HasStart /\ HasEnd))

C12_Witness ==
    /\ pc = "Extracted"
    /\ VERSION_MARKER \in Range(canon.text)
    /\ LAST_UPDATED_MARKER \notin Range(canon.text)
    /\ metadata = [version |-> "2.0.0", lastUpdated |-> Today]
    /\ clock = MaxClock

(***************************************************************************)
(* The course of one invocation.                                           *)
(***************************************************************************)
Terminal == {"Done", "Aborted"}

\* The changes of pc inside one invocation.
Forward ==
    { <<"NotStarted", "Loaded">>, <<"Loaded", "Extracted">>,
      <<"Extracted", "Rendering">>, <<"Rendering", "Rendering">>,
      <<"Rendering", "Done">>,
      <<"NotStarted", "Aborted">>, <<"Loaded", "Aborted">>,
      <<"Rendering", "Aborted">> }

\* The path the next render-and-write step writes to.
NextPath ==
    CASE ri = 1 -> COPILOT_FILE
      [] ri = 2 -> REPLIT_FILE
      [] ri = 3 -> CursorMainPath
      [] OTHER -> IF ti \in 1..Len(rules) THEN CursorRulePath(rules[ti].key) ELSE <<>>

\* The statement that runs next meets a fatal condition: the canonical file
\* is unreadable or empty, a SYNC marker is missing, or the write fails.
FatalNow ==
    CASE pc = "NotStarted" -> ~canon.exists \/ canon.text = <<>>
      [] pc = "Loaded" -> ~(HasStart /\ HasEnd)
      [] pc = "Rendering" -> NextPath \in failing
      [] OTHER -> FALSE

\* (ri, ti) moves on: a render-and-write step is never repeated.
RenderAdvances == ri' > ri \/ (ri' = ri /\ ti' > ti)

C13_Step ==
    /\ <<pc, pc'>> \in Forward
    /\ (pc' = "Rendering" /\ pc = "Rendering") => RenderAdvances
    /\ (pc' = "Aborted") <=> FatalNow
    /\ pc' = "Done" => (exitCode' = 0 /\ DuePaths \subseteq written')
    /\ pc' = "Aborted" => exitCode' = 1
    /\ pc' \notin Terminal => exitCode' = -1

\* C13: an invocation moves NotStarted, Loaded, Extracted, Rendering, never
\* back and never repeating a step; it leaves this course only for Aborted,
\* exactly when the next statement meets a fatal condition, with exit code 1;
\* it reaches Done with exit code 0 and every due output written; from Done
\* or Aborted the invocation takes no further step; and every invocation
\* that starts reaches Done or Aborted.
C13_ForwardToDoneOrAborted ==
    /\ [][C13_Step]_vars
    /\ (pc = "NotStarted") ~> (pc \in Terminal)

C13_Witness ==
    /\ pc = "Aborted" /\ exitCode = 1
    /\ written = {COPILOT_FILE, REPLIT_FILE, CursorMainPath}
    /\ Len(rules) >= 1

(***************************************************************************)
(* The effect of one writeFile call.                                       *)
(***************************************************************************)
\* The text the invocation passes to writeFile for path p (lines 321-340).
TextFor(p) ==
    CASE p = COPILOT_FILE ->
             generateCopilotInstructions(coreStandards, rules, metadata, clock)
      [] p = REPLIT_FILE ->
             generateReplitInstructions(coreStandards, rules, metadata, clock)
      [] p = CursorMainPath -> generateCursorMainRules(coreStandards, rules, metadata)
      [] OTHER ->
             LET k == CHOOSE k \in 1..Len(rules) : CursorRulePath(rules[k].key) = p
             IN  generateMdcContent(rules[k].content, rules[k].name,
                                    RuleDescription(rules[k]))

\* The directories above path p, the root included.
Ancestors(p) == {SubSeq(p, 1, k) : k \in 0..(Len(p) - 1)}

C14_Call ==
    written' \ written # {} =>
        \E p \in OutPaths :
            /\ written' = written \cup {p} /\ p \notin written
            /\ Ancestors(p) \subseteq dirs'
            /\ dirs \subseteq dirs' /\ dirs' \ dirs \subseteq Ancestors(p)
            /\ fs'[p] = File(TextFor(p))
            /\ \A q \in OutPaths \ {p} : fs'[q] = fs[q]
            /\ canon' = canon /\ topicFile' = topicFile

\* C14: a writeFile call that succeeds leaves every directory above the path
\* in existence, creating none but these; the file then holds exactly the
\* text passed, whatever it held before; and every other file, output or
\* input, is as it was.
C14_WriteReplacesOneFile == [][C14_Call]_vars

\* The Copilot file of an earlier invocation has been overwritten with a
\* different text, the Replit file of that invocation is still in place.
C14_Witness ==
    /\ pc = "Rendering" /\ prev.ran
    /\ written = {COPILOT_FILE}
    /\ prev.fs[COPILOT_FILE].exists
    /\ fs[COPILOT_FILE] # prev.fs[COPILOT_FILE]
    /\ fs[COPILOT_FILE] = File(TextFor(COPILOT_FILE))
    /\ fs[REPLIT_FILE] = prev.fs[REPLIT_FILE]

(***************************************************************************)
(* The render-and-write operations in any order.                           *)
(***************************************************************************)
\* The disk after the writes of the operations 1..n in this order, on disk
\* f, the Copilot text rendered at time t1 and the Replit text at time t2.
RECURSIVE SeqApply(_, _, _, _)
SeqApply(f, n, t1, t2) ==
    IF n = 0 THEN f
    ELSE [SeqApply(f, n - 1, t1, t2) EXCEPT
             ![OpPath(n)] = File(OpContent(n, IF n = 1 THEN t1 ELSE t2))]

DistinctPaths == \A o1, o2 \in 1..OpCount : o1 # o2 => OpPath(o1) # OpPath(o2)

\* C11 as claimed: whatever the order and the interleaving, the files are
\* those, text for text, of some execution in the order of the script (the
\* Copilot text rendered no later than the Replit text).
C11_SameAsSequential ==
    pc = "Done" =>
        \E t1, t2 \in 0..MaxClock :
            t1 <= t2 /\ fs = SeqApply(prev.fs, OpCount, t1, t2)

\* C11: the operations write to pairwise distinct paths, and whatever the
\* order and the interleaving, the same files exist in the end as after the
\* operations in the order of the script, with the same text but for the
\* time of generation in the Copilot and the Replit file.
C11_SameButForTimestamp ==
    /\ pc = "Rendering" => DistinctPaths
    /\ pc = "Done" =>
           LET seq == SeqApply(prev.fs, OpCount, clock, clock)
           IN  \A p \in OutPaths :
                   /\ fs[p].exists = seq[p].exists
                   /\ WithoutTimestamp(fs[p].text) = WithoutTimestamp(seq[p].text)

\* The Replit file was rendered and written before the Copilot file, a topic
\* file before both, over the outputs of an earlier invocation.
C11_Witness ==
    /\ pc = "Done"
    /\ Len(rules) = Cardinality(Topics)
    /\ prev.fs[REPLIT_FILE] = OLD_OUTPUT
    /\ fs[REPLIT_FILE].text = OpContent(2, 0)
    /\ fs[COPILOT_FILE].text = OpContent(1, MaxClock)
    /\ fs[CursorRulePath(rules[1].key)].text = OpContent(4, 0)

(***************************************************************************)
(* components/common/PatientTable.tsx.  A date is the string the component *)
(* is given; the Date made from it is that day, or NaN.                    *)
(***************************************************************************)
UNDEFINED == "<undefined>"
DATE_SAMPLES == {"1985-03-15", "2024-01-15", "invalid-date", ""}
INVALID_DATE == "NaN"

\* new Date(dateString): a date-only ISO string is midnight UTC of that day;
\* a string that parses as no date gives a Date whose time value is NaN.
NewDate(dateString) ==
    IF dateString \in {"1985-03-15", "2024-01-15"} THEN dateString ELSE INVALID_DATE

\* date.toLocaleDateString('en-US', {year: 'numeric', month: 'short', day:
\* 'numeric'}) in the time zone of the browser: west of Greenwich midnight UTC
\* is the evening before.  An invalid Date is formatted as "Invalid Date";
\* nothing is thrown.
toLocaleDateString(date, timeZone) ==
    [threw |-> FALSE,
     value |-> CASE date = INVALID_DATE -> "Invalid Date"
                 [] date = "1985-03-15" ->
                        IF timeZone = "UTC" THEN "Mar 15, 1985" ELSE "Mar 14, 1985"
                 [] date = "2024-01-15" ->
                        IF timeZone = "UTC" THEN "Jan 15, 2024" ELSE "Jan 14, 2024"]

\* formatDate (lines 95-106).
formatDate(dateString, timeZone) ==
    LET r == toLocaleDateString(NewDate(dateString), timeZone)
    IN  IF r.threw THEN dateString ELSE r.value

\* The three date cells of a row (lines 183, 212, 222-224).
DateCells(patient, timeZone) ==
    [dateOfBirth |-> formatDate(patient.dateOfBirth, timeZone),
     lastVisit |-> formatDate(patient.lastVisit, timeZone),
     nextAppointment |->
         IF patient.nextAppointment \notin {UNDEFINED, ""}
         THEN formatDate(patient.nextAppointment, timeZone)
         ELSE "N/A"]

\* Variant: any key on a row counts as its activation.
handleRowKeyDownAnyKey(t, patient, key) ==
    [calls |-> IF t.onRowClick THEN Append(t.calls, patient) ELSE t.calls,
     defaultPrevented |-> TRUE]

\* handleRowClick (lines 76-81): onRowClick?.(patient).
handleRowClick(t, patient) ==
    IF t.onRowClick THEN Append(t.calls, patient) ELSE t.calls

\* handleRowKeyDown (lines 84-92).
handleRowKeyDown(t, patient, key) ==
    IF key \in {"Enter", " "}
    THEN [calls |-> handleRowClick(t, patient), defaultPrevented |-> TRUE]
    ELSE [calls |-> t.calls, defaultPrevented |-> FALSE]

Outside == <<canon, topicFile, fs, dirs, failing, clock, pc, exitCode, metadata,
             coreStandards, rules, ri, ti, written, made, runs, prev, ops,
             lint, layout, router, store, viewport>>

\* The component is mounted and renders its rows (lines 109-240).
RenderTable ==
    /\ ~table.mounted
    /\ table' = [table EXCEPT
                     !.mounted = TRUE,
                     !.cells = [i \in 1..Len(table.patients) |->
                                   DateCells(table.patients[i], table.timeZone)]]
    /\ UNCHANGED <<Outside, navbar, hook>>

\* A click on row i (onClick of line 118).
RowClick(i) ==
    /\ table.mounted
    /\ table.events < MaxEvents
    /\ table' = [table EXCEPT
                     !.calls = handleRowClick(table, table.patients[i]),
                     !.events = @ + 1,
                     !.event = [type |-> "click", row |-> i, key |-> "",
                                defaultPrevented |-> FALSE]]
    /\ UNCHANGED <<Outside, navbar, hook>>

\* A key pressed on row i (onKeyDown of line 119).
KEYS == {"Enter", " ", "Tab", "a"}

RowKeyDown(i, key) ==
    /\ table.mounted
    /\ table.events < MaxEvents
    /\ LET r == handleRowKeyDown(table, table.patients[i], key)
       IN  table' = [table EXCEPT
                        !.calls = r.calls,
                        !.events = @ + 1,
                        !.event = [type |-> "keydown", row |-> i, key |-> key,
                                   defaultPrevented |-> r.defaultPrevented]]
    /\ UNCHANGED <<Outside, navbar, hook>>

\* The state of the script while a component is looked at.
ScriptIdleOnly ==
    /\ canon = NoFile
    /\ topicFile = [i \in Topics |-> NoFile]
    /\ failing = {}
    /\ fs = [p \in OutPaths |-> NoFile]
    /\ dirs = {ROOT_DIR}
    /\ clock = 0
    /\ runs = 1
    /\ prev = NoPrev
    /\ Fresh
    /\ ops = NoOps

\* The script is idle, and so are the lint rules, layout, router and store.
ScriptIdle ==
    /\ ScriptIdleOnly
    /\ LaterIdle

\* One patient with every combination of date strings, in either time zone.
InitDates ==
    /\ ScriptIdle
    /\ \E b \in DATE_SAMPLES, v \in DATE_SAMPLES, a \in DATE_SAMPLES \cup {UNDEFINED},
          z \in {"UTC", "America/New_York"}, c \in BOOLEAN :
          table = [NoTable EXCEPT
                      !.patients = <<[id |-> 1, dateOfBirth |-> b, lastVisit |-> v,
                                      nextAppointment |-> a]>>,
                      !.timeZone = z,
                      !.onRowClick = c]
    /\ navbar = NoNavbar
    /\ hook = NoHook

SpecDates == InitDates /\ [][RenderTable]_vars

\* The patients of the tests (PatientTable.test.tsx, lines 21-45).
MockPatient(i) ==
    [id |-> i, dateOfBirth |-> "1985-03-15", lastVisit |-> "2024-01-15",
     nextAppointment |-> IF i % 2 = 1 THEN "2024-01-15" ELSE UNDEFINED]

InitRows ==
    /\ ScriptIdle
    /\ \E n \in 1..MaxRows, c \in BOOLEAN :
          table = [NoTable EXCEPT
                      !.patients = [i \in 1..n |-> MockPatient(i)],
                      !.onRowClick = c]
    /\ navbar = NoNavbar
    /\ hook = NoHook

NextRows ==
    \/ RenderTable
    \/ \E i \in 1..Len(table.patients) : RowClick(i)
    \/ \E i \in 1..Len(table.patients), key \in KEYS : RowKeyDown(i, key)

SpecRows == InitRows /\ [][NextRows]_vars

\* The strings that are no date.
NoDate(s) == s # UNDEFINED /\ NewDate(s) = INVALID_DATE

\* C15: a date field whose value is a string that is no valid date is shown
\* as that very string, and rendering does not fail.
C15_InvalidDateShownUnchanged ==
    table.mounted =>
        /\ ~table.threw
        /\ \A i \in 1..Len(table.patients) :
               LET p == table.patients[i]
                   c == table.cells[i]
               IN  /\ NoDate(p.dateOfBirth) => c.dateOfBirth = p.dateOfBirth
                   /\ NoDate(p.lastVisit) => c.lastVisit = p.lastVisit
                   /\ NoDate(p.nextAppointment) => c.nextAppointment = p.nextAppointment

\* The row activations: a click, or Enter or Space pressed.
Activates(e) == e.type = "click" \/ (e.type = "keydown" /\ e.key \in {"Enter", " "})

C16_Event ==
    table'.events = table.events + 1 =>
        LET e == table'.event
        IN  /\ ~table'.threw
            /\ table'.calls =
                   IF table.onRowClick /\ Activates(e)
                   THEN Append(table.calls, table.patients[e.row])
                   ELSE table.calls

\* C16: with onRowClick given, every click, Enter or Space on a row adds
\* exactly one call of onRowClick, with the patient of that row, and any
\* other key adds none; without onRowClick no event calls anything, and no
\* event fails.
C16_OneCallPerActivation == [][C16_Event]_vars

C16_Witness ==
    /\ table.onRowClick
    /\ Len(table.patients) = MaxRows
    /\ table.events = MaxEvents
    /\ table.event = [type |-> "keydown", row |-> 1, key |-> " ", defaultPrevented |-> TRUE]
    /\ table.calls = <<table.patients[MaxRows], table.patients[1]>>

(***************************************************************************)
(* components/common/Navbar.tsx.  The props are onMenuClick (given or not) *)
(* and menuOpen ("undefined", "true" or "false"); internalMenuAnchor is    *)
(* TRUE when the state holds an element, FALSE when it holds null.         *)
(***************************************************************************)
NAVBAR_LINKS == <<"/", "/about", "/services", "/contact", "/login">>

\* Line 365.
isMenuOpen(n) ==
    IF n.menuOpen # "undefined" THEN n.menuOpen = "true" ELSE n.internalMenuAnchor

\* One call of the onMenuClick prop.
onMenuClick(n) == [n EXCEPT !.calls = @ + 1]

\* handleMenuOpen (lines 374-384).
handleMenuOpen(n) ==
    IF n.onMenuClick
    THEN onMenuClick(IF ~n.internalMenuAnchor
                     THEN [n EXCEPT !.internalMenuAnchor = TRUE]
                     ELSE n)
    ELSE [n EXCEPT !.internalMenuAnchor = TRUE]

\* handleMenuClose (lines 387-394).
handleMenuClose(n) ==
    IF n.onMenuClick
    THEN onMenuClick([n EXCEPT !.internalMenuAnchor = FALSE])
    ELSE [n EXCEPT !.internalMenuAnchor = FALSE]

\* Variant: the menu is left as it is after navigating.
handleNavigateOnly(n, path) == [n EXCEPT !.location = path]

\* handleNavigate (lines 397-403).
handleNavigate(n, path) == handleMenuClose([n EXCEPT !.location = path])

\* handleMenuKeyDown (lines 406-418).
handleMenuKeyDown(n, key) ==
    IF key \in {"Enter", " "}
    THEN IF n.onMenuClick THEN onMenuClick(n) ELSE handleMenuOpen(n)
    ELSE n

\* Variant: the button opens the menu and then calls the prop as well.
MenuButtonOnClickBoth(n) == IF n.onMenuClick THEN onMenuClick(handleMenuOpen(n)) ELSE handleMenuOpen(n)

\* onClick of the menu button (line 546).
MenuButtonOnClick(n) == IF n.onMenuClick THEN onMenuClick(n) ELSE handleMenuOpen(n)

\* The parent renders the Navbar again after the handler has run.  A parent
\* that was called through onMenuClick and controls menuOpen may toggle it.
ParentRenders(before, after) ==
    IF after.calls > before.calls /\ after.menuOpen # "undefined"
    THEN {after, [after EXCEPT !.menuOpen = IF @ = "true" THEN "false" ELSE "true"]}
    ELSE {after}

\* The handler has taken navbar to state after, on the event e.
NavbarEvent(after, e) ==
    /\ navbar.events < MaxEvents
    /\ \E m \in ParentRenders(navbar, after) :
          navbar' = [m EXCEPT !.events = @ + 1, !.event = e]
    /\ UNCHANGED <<Outside, table, hook>>

NavEvent(type, key, path, prevented) ==
    [type |-> type, key |-> key, path |-> path, defaultPrevented |-> prevented]

\* A click on the mobile menu button (lines 537-555).
MenuButtonClick ==
    /\ navbar.isMobile
    /\ NavbarEvent(MenuButtonOnClick(navbar), NavEvent("buttonclick", "", "", FALSE))

\* A key pressed on the mobile menu button (line 547).
MenuButtonKeyDown(key) ==
    /\ navbar.isMobile
    /\ NavbarEvent(handleMenuKeyDown(navbar, key),
                   NavEvent("buttonkeydown", key, "", key \in {"Enter", " "}))

\* A click on an item of the open menu (lines 446-451, 468).
MenuItemClick(path) ==
    /\ isMenuOpen(navbar)
    /\ NavbarEvent(handleNavigate(navbar, path), NavEvent("itemclick", "", path, FALSE))

\* A key pressed on an item of the open menu (lines 454-462, 469).
MenuItemKeyDown(path, key) ==
    /\ isMenuOpen(navbar)
    /\ NavbarEvent(IF key \in {"Enter", " "} THEN handleNavigate(navbar, path) ELSE navbar,
                   NavEvent("itemkeydown", key, path, key \in {"Enter", " "}))

\* The open menu is dismissed: Escape, or a click beside it (line 562).
MenuOnClose ==
    /\ isMenuOpen(navbar)
    /\ NavbarEvent(handleMenuClose(navbar), NavEvent("close", "", "", FALSE))

\* A click on a link of the desktop navigation (lines 421-443).
DesktopLinkClick(path) ==
    /\ ~navbar.isMobile
    /\ NavbarEvent([navbar EXCEPT !.location = path], NavEvent("linkclick", "", path, FALSE))

NextNavbar ==
    \/ MenuButtonClick
    \/ \E key \in KEYS : MenuButtonKeyDown(key)
    \/ \E i \in 1..Len(NAVBAR_LINKS) : MenuItemClick(NAVBAR_LINKS[i])
    \/ \E i \in 1..Len(NAVBAR_LINKS), key \in KEYS : MenuItemKeyDown(NAVBAR_LINKS[i], key)
    \/ MenuOnClose
    \/ \E i \in 1..Len(NAVBAR_LINKS) : DesktopLinkClick(NAVBAR_LINKS[i])

\* A Navbar mounted at "/" with any props, on a narrow or a wide viewport.
InitNavbar ==
    /\ ScriptIdle
    /\ table = NoTable
    /\ \E c \in BOOLEAN, o \in {"undefined", "true", "false"}, w \in BOOLEAN :
          navbar = [NoNavbar EXCEPT !.onMenuClick = c, !.menuOpen = o, !.isMobile = w]
    /\ hook = NoHook

SpecNavbar == InitNavbar /\ [][NextNavbar]_vars

\* The Navbar is used without props, on a mobile viewport.
Uncontrolled(n) == ~n.onMenuClick /\ n.menuOpen = "undefined" /\ n.isMobile

C17_Event ==
    (Uncontrolled(navbar) /\ navbar'.events = navbar.events + 1) =>
        LET e == navbar'.event
        IN  /\ (e.type = "buttonclick"
                   \/ (e.type = "buttonkeydown" /\ e.key \in {"Enter", " "}))
                   => isMenuOpen(navbar')
            /\ e.type = "itemclick"
                   => (navbar'.location = e.path /\ ~isMenuOpen(navbar'))

\* C17: a Navbar without props on a mobile viewport starts with its menu
\* closed; a click on the menu button, or Enter or Space pressed on it, leaves
\* the menu open; a click on a menu item leaves the router at that item's
\* path and the menu closed.
C17_OpensThenNavigatesAndCloses ==
    /\ (Uncontrolled(navbar) => ~isMenuOpen(navbar))
    /\ [][C17_Event]_vars

C17_Witness ==
    /\ Uncontrolled(navbar)
    /\ navbar.event.type = "itemclick"
    /\ navbar.location = "/about"
    /\ ~isMenuOpen(navbar)
    /\ navbar.events = 2

C18_Event ==
    (navbar.onMenuClick /\ navbar'.events = navbar.events + 1
        /\ navbar'.event.type = "buttonclick")
        => navbar'.calls = navbar.calls + 1

\* C18: with onMenuClick given, every click on the mobile menu button adds
\* exactly one call of onMenuClick.
C18_OneCallPerButtonClick == [][C18_Event]_vars

C18_Witness ==
    /\ navbar.onMenuClick
    /\ navbar.event.type = "buttonclick"
    /\ navbar.events = MaxEvents
    /\ navbar.calls = MaxEvents

(***************************************************************************)
(* scripts/validate-file-structure.js.  A staged file is its directories   *)
(* (dirs), its name and what the working tree holds at its path.  A name   *)
(* is a sequence of tokens: "U" an upper-case letter, "l" a lower-case     *)
(* letter or digit, the words "use", "Service" and "Layout", "." a dot     *)
(* inside the name, and the extension last.                                *)
(***************************************************************************)
FOLDER_RULES ==
    [components |-> {"common", "forms", "feedback"},
     hooks |-> {"api", "ui", "utils"},
     utils |-> {"validators", "formatters", "constants"},
     types |-> {"api", "components", "common"},
     services |-> {"api", "endpoints"},
     store |-> {"slices", "contexts", "selectors"}]

\* The character classes of NAMING_RULES (lines 30-38).
StartsUpper(t) == t \in {"U", "Service", "Layout"}
StartsLower(t) == t \in {"l", "use"}
IsAlnum(t) == StartsUpper(t) \/ StartsLower(t)
IsTsExt(t) == t \in {".ts", ".tsx"}

\* name matches /^<first>[a-zA-Z0-9]*\.tsx?$/ : all but the extension is
\* letters and digits.
AlnumThenExt(name) ==
    /\ Len(name) >= 2
    /\ IsTsExt(name[Len(name)])
    /\ \A i \in 1..(Len(name) - 1) : IsAlnum(name[i])

PascalCase(name) == AlnumThenExt(name) /\ StartsUpper(name[1])
CamelCase(name) == AlnumThenExt(name) /\ StartsLower(name[1])

\* NAMING_RULES[kind].test(name).
NAMING_RULES(kind, name) ==
    CASE kind \in {"components", "types", "pages"} -> PascalCase(name)
      [] kind = "hooks" ->
             AlnumThenExt(name) /\ Len(name) >= 3 /\ name[1] = "use"
                 /\ StartsUpper(name[2])
      [] kind = "utils" -> CamelCase(name)
      [] kind = "services" ->
             CamelCase(name) /\ Len(name) >= 3 /\ name[Len(name) - 1] = "Service"
      [] kind = "layouts" ->
             PascalCase(name) /\ Len(name) >= 3 /\ name[Len(name) - 1] = "Layout"

\* normalizedPath.includes('/<dir>/'): a directory of that name which is not
\* the first component of the path.
IncludesDir(f, dir) == \E k \in 2..Len(f.dirs) : f.dirs[k] = dir

\* The positions of the directories named src: normalizedPath.includes('src/')
\* holds when there is one.
SrcAt(f) == {k \in 1..Len(f.dirs) : f.dirs[k] = "src"}

\* normalizedPath.split('src/')[1].split('/') (lines 63-65): what lies between
\* the first src/ and the next one, or the end of the path.  With a second
\* src/ the file name is the empty string.
FolderPath(f) ==
    LET k1 == Min(SrcAt(f))
        rest == {k \in SrcAt(f) : k > k1}
    IN  IF rest = {} THEN SubSeq(f.dirs, k1 + 1, Len(f.dirs))
        ELSE SubSeq(f.dirs, k1 + 1, Min(rest) - 1)

FileName(f) == IF Cardinality(SrcAt(f)) > 1 THEN <<>> ELSE f.name

\* folderPath[folderPath.indexOf(dir) + 1], UNDEFINED beyond the end.
Subfolder(folderPath, dir) ==
    LET k == IndexOf(folderPath, dir) + 2
    IN  IF k <= Len(folderPath) THEN folderPath[k] ELSE UNDEFINED

Error(type, f) == [type |-> type, file |-> f.path]

\* The folder check and the naming check of one kind of folder (lines 67-88,
\* 90-111, 135-156, 158-179).
FolderErrors(f, kind) ==
    IF IncludesDir(f, kind)
    THEN LET subfolder == Subfolder(FolderPath(f), kind)
         IN  IF subfolder # UNDEFINED /\ subfolder \notin FOLDER_RULES[kind]
             THEN <<Error("folder-structure", f)>>
             ELSE <<>>
    ELSE <<>>

NamingErrors(f, dir, kind) ==
    IF IncludesDir(f, dir) /\ ~NAMING_RULES(kind, FileName(f))
    THEN <<Error("naming-convention", f)>>
    ELSE <<>>

\* '/services/endpoints/' is part of the path (line 195).
IncludesEndpoints(f) ==
    \E k \in 2..(Len(f.dirs) - 1) : f.dirs[k] = "services" /\ f.dirs[k + 1] = "endpoints"

ALIASED_DIRS == {"components", "pages", "hooks", "utils", "types", "services", "store"}

\* Lines 220-245: the file at the path in the working tree is read, if there
\* is one, and searched for from '../../(components|hooks|...)'.
ImportErrors(f) ==
    IF f.onDisk /\ (\E d \in ALIASED_DIRS : IncludesDir(f, d)) /\ f.deepImport
    THEN <<Error("import-path", f)>>
    ELSE <<>>

\* validateFolderStructure (lines 54-248).
validateFolderStructure(f) ==
    IF SrcAt(f) = {} THEN <<>>
    ELSE FolderErrors(f, "components") \o NamingErrors(f, "components", "components")
         \o FolderErrors(f, "hooks") \o NamingErrors(f, "hooks", "hooks")
         \o NamingErrors(f, "pages", "pages")
         \o NamingErrors(f, "layouts", "layouts")
         \o FolderErrors(f, "utils") \o NamingErrors(f, "utils", "utils")
         \o FolderErrors(f, "types") \o NamingErrors(f, "types", "types")
         \o FolderErrors(f, "services")
         \o (IF IncludesEndpoints(f) /\ ~NAMING_RULES("services", FileName(f))
             THEN <<Error("naming-convention", f)>>
             ELSE <<>>)
         \o FolderErrors(f, "store")
         \o ImportErrors(f)

\* file.endsWith('.ts') || file.endsWith('.tsx') (line 48).
IsTypeScript(f) == Len(f.name) >= 1 /\ IsTsExt(f.name[Len(f.name)])

\* getStagedFiles (lines 40-52): the staged paths that end in .ts or .tsx;
\* none when the git command fails.
getStagedFiles(h) == IF h.gitFails THEN <<>> ELSE SelectSeq(h.index, IsTypeScript)

\* main, lines 250-258.
MainGetStagedFiles ==
    /\ hook.pc = "NotStarted"
    /\ LET stagedFiles == getStagedFiles(hook)
       IN  hook' = IF Len(stagedFiles) = 0
                   THEN [hook EXCEPT !.pc = "Done", !.exitCode = 0]
                   ELSE [hook EXCEPT !.pc = "Validating", !.stagedFiles = stagedFiles]
    /\ UNCHANGED <<Outside, table, navbar>>

\* main, lines 262-297.
MainValidate ==
    /\ hook.pc = "Validating"
    /\ LET allErrors == Flatten([i \in 1..Len(hook.stagedFiles) |->
                                    validateFolderStructure(hook.stagedFiles[i])])
       IN  hook' = [hook EXCEPT
                       !.allErrors = allErrors,
                       !.pc = "Done",
                       !.exitCode = IF Len(allErrors) > 0 THEN 1 ELSE 0]
    /\ UNCHANGED <<Outside, table, navbar>>

\* Files as they may be staged, in the order git lists them.
Staged(path, folders, name, onDisk, deepImport) ==
    [path |-> path, dirs |-> folders, name |-> name, onDisk |-> onDisk,
     deepImport |-> deepImport]

STAGED_SAMPLES ==
    << Staged("scripts/build.ts", <<"scripts">>, <<"l", ".ts">>, TRUE, FALSE),
       Staged("src/components/Button.tsx", <<"src", "components">>,
              <<"U", "l", ".tsx">>, TRUE, FALSE),
       Staged("src/components/common/Button.test.tsx", <<"src", "components", "common">>,
              <<"U", "l", ".", "l", ".tsx">>, TRUE, FALSE),
       Staged("src/components/common/Card.tsx", <<"src", "components", "common">>,
              <<"U", "l", ".tsx">>, TRUE, FALSE),
       Staged("src/components/common/button.tsx", <<"src", "components", "common">>,
              <<"l", ".tsx">>, TRUE, FALSE),
       Staged("src/components/ui/Button.tsx", <<"src", "components", "ui">>,
              <<"U", "l", ".tsx">>, TRUE, FALSE),
       Staged("src/components/ui/styles.css", <<"src", "components", "ui">>,
              <<"l", ".css">>, TRUE, FALSE),
       Staged("src/hooks/api/useAuth.ts", <<"src", "hooks", "api">>,
              <<"use", "U", "l", ".ts">>, TRUE, FALSE),
       Staged("src/pages/Dashboard.tsx", <<"src", "pages">>,
              <<"U", "l", ".tsx">>, TRUE, TRUE),
       Staged("src/pages/Login.tsx", <<"src", "pages">>,
              <<"U", "l", ".tsx">>, FALSE, TRUE),
       Staged("src/utils/helpers/format.ts", <<"src", "utils", "helpers">>,
              <<"l", ".ts">>, TRUE, FALSE) >>

\* The samples at the positions I, in order.
Pick(I) ==
    LET Chosen(f) == \E i \in I : STAGED_SAMPLES[i] = f
    IN  SelectSeq(STAGED_SAMPLES, Chosen)

InitHook ==
    /\ ScriptIdle
    /\ table = NoTable
    /\ navbar = NoNavbar
    /\ \E I \in SUBSET (1..Len(STAGED_SAMPLES)), g \in BOOLEAN :
          /\ Cardinality(I) <= MaxStaged
          /\ hook = [NoHook EXCEPT !.index = Pick(I), !.gitFails = g]

SpecHook == InitHook /\ [][MainGetStagedFiles \/ MainValidate]_vars

\* The staged file breaks a rule of the validator: a folder rule, a naming
\* rule, or it imports through ../../ where an alias is due.
Violating(f) == validateFolderStructure([f EXCEPT !.onDisk = TRUE]) # <<>>

\* C19: the validator ends with exit status 1 if some staged .ts/.tsx file
\* breaks a rule, and with exit status 0 if none does.
C19_BlockedIffViolation ==
    hook.pc = "Done" =>
        hook.exitCode =
            IF \E i \in 1..Len(hook.index) :
                   IsTypeScript(hook.index[i]) /\ Violating(hook.index[i])
            THEN 1 ELSE 0

UnderSrcComponents(f) ==
    Len(f.dirs) >= 2 /\ f.dirs[1] = "src" /\ f.dirs[2] = "components"

InAllowedSubfolder(f) == Len(f.dirs) >= 3 /\ f.dirs[3] \in FOLDER_RULES.components

\* C20: every staged TypeScript file under src/components/ that is not
\* inside common, forms or feedback gets a folder-structure error.
C20_ComponentsOutsideSubfoldersReported ==
    (hook.pc = "Done" /\ ~hook.gitFails) =>
        \A i \in 1..Len(hook.index) :
            LET f == hook.index[i]
            IN  (IsTypeScript(f) /\ UnderSrcComponents(f) /\ ~InAllowedSubfolder(f))
                    => \E k \in 1..Len(hook.allErrors) :
                           hook.allErrors[k] = Error("folder-structure", f)

\* A test file beside its source in an allowed components subfolder: a
\* PascalCase name, a dot, a lower-case word (test), the extension.
CoLocatedTest(f) ==
    /\ UnderSrcComponents(f) /\ InAllowedSubfolder(f)
    /\ Len(f.name) >= 4
    /\ f.name[Len(f.name) - 2] = "." /\ f.name[Len(f.name) - 1] = "l"
    /\ PascalCase(SubSeq(f.name, 1, Len(f.name) - 3) \o <<f.name[Len(f.name)]>>)

ErrorsFor(f) == {k \in 1..Len(hook.allErrors) : hook.allErrors[k].file = f.path}

\* C21: a staged test file beside its source in an allowed components
\* subfolder gets no validator error, and a commit of nothing but such files
\* and their sources is not blocked.
C21_CoLocatedTestAccepted ==
    (hook.pc = "Done" /\ ~hook.gitFails) =>
        /\ \A i \in 1..Len(hook.index) :
               CoLocatedTest(hook.index[i]) => ErrorsFor(hook.index[i]) = {}
        /\ (\A i \in 1..Len(hook.index) :
               hook.index[i].path \in {"src/components/common/Button.test.tsx",
                                       "src/components/common/Card.tsx"})
               => hook.exitCode = 0

\* C27: the validator exits 0 only when every staged .ts/.tsx file was
\* examined and found free of violations; a git command that fails is not
\* reported as a successful validation.
C27_ExitZeroOnlyWhenAllExamined ==
    (hook.pc = "Done" /\ hook.exitCode = 0) =>
        \A i \in 1..Len(hook.index) :
            IsTypeScript(hook.index[i]) =>
                /\ \E k \in 1..Len(hook.stagedFiles) : hook.stagedFiles[k] = hook.index[i]
                /\ validateFolderStructure(hook.index[i]) = <<>>

(***************************************************************************)
(* eslint-plugin-project-rules/index.js.  A file is a sequence of          *)
(* top-level nodes; ESLint walks it and calls the handlers of a rule, on   *)
(* entering each node in source order and, for a ':exit' key, on leaving   *)
(* it.  An identifier is a sequence of the name tokens of the validator.   *)
(***************************************************************************)
MaxNodes == 2

NoCallee == [type |-> "none", name |-> UNDEFINED, object |-> UNDEFINED, property |-> UNDEFINED]
Identifier(name) == [NoCallee EXCEPT !.type = "Identifier", !.name = name]
MemberExpression(object, property) ==
    [NoCallee EXCEPT !.type = "MemberExpression", !.object = object, !.property = property]

\* A node a handler is called with.
Node(type) ==
    [type |-> type, stmt |-> 0, params |-> 0, id |-> <<>>, callee |-> NoCallee,
     decl |-> "none", name |-> UNDEFINED, attributes |-> <<>>]

ArrowFunction(params) == [Node("ArrowFunctionExpression") EXCEPT !.params = params]
Declarator(id, callee) == [Node("VariableDeclarator") EXCEPT !.id = id, !.callee = callee]

\* A top-level statement: export or not, a VariableDeclaration (const id =
\* init) or a FunctionDeclaration, the callee when init is a call, the kind
\* of function and the number of its parameters, the nodes of its body.
Statement(exported, decl, id, callee, fn, params, body) ==
    [exported |-> exported, decl |-> decl, id |-> id, callee |-> callee, fn |-> fn,
     params |-> params, body |-> body]

\* The handler calls of the require-react-memo rule on statement s, the i-th
\* of the file, in the order of the traversal.
Traversal(s, i) ==
    (IF s.exported
     THEN <<[Node("ExportNamedDeclaration") EXCEPT !.stmt = i]>> ELSE <<>>)
    \o (IF s.decl = "VariableDeclaration" THEN <<Declarator(s.id, s.callee)>> ELSE <<>>)
    \o (IF s.fn \in {"ArrowFunctionExpression", "FunctionDeclaration"}
        THEN <<[Node(s.fn) EXCEPT !.params = s.params]>> ELSE <<>>)
    \o s.body
    \o (IF s.exported
        THEN <<[Node("ExportNamedDeclaration:exit") EXCEPT
                    !.stmt = i, !.decl = s.decl, !.id = s.id]>>
        ELSE <<>>)

RECURSIVE TraverseFile(_, _)
TraverseFile(file, i) ==
    IF i > Len(file) THEN <<>> ELSE Traversal(file[i], i) \o TraverseFile(file, i + 1)

\* The handler of the rule that ESLint calls next.
Visits(type) == lint.queue # <<>> /\ Head(lint.queue).type = type

\* ExportNamedDeclaration (lines 387-392).
ExportNamedDeclaration ==
    /\ Visits("ExportNamedDeclaration")
    /\ lint' = [lint EXCEPT !.queue = Tail(@), !.isExport = TRUE, !.componentName = <<>>,
                            !.hasProps = FALSE, !.hasMemo = FALSE]
    /\ UNCHANGED <<Script, table, navbar, hook, layout, router, store, viewport>>

\* VariableDeclarator (lines 394-415).
VariableDeclarator ==
    /\ Visits("VariableDeclarator")
    /\ LET node == Head(lint.queue)
           isReactMemo == /\ node.callee.type = "MemberExpression"
                          /\ node.callee.object = "React"
                          /\ node.callee.property = "memo"
           isMemoImport == /\ node.callee.type = "Identifier"
                           /\ node.callee.name = "memo"
       IN  lint' = IF node.callee.type # "none" /\ (isReactMemo \/ isMemoImport)
                   THEN [lint EXCEPT !.queue = Tail(@), !.hasMemo = TRUE,
                                     !.componentName = node.id]
                   ELSE [lint EXCEPT !.queue = Tail(@)]
    /\ UNCHANGED <<Script, table, navbar, hook, layout, router, store, viewport>>

\* The body shared by the two function handlers: a function with at least
\* one parameter sets hasProps.
SetHasProps(l, node) ==
    IF node.params > 0
    THEN [l EXCEPT !.queue = Tail(@), !.hasProps = TRUE]
    ELSE [l EXCEPT !.queue = Tail(@)]

\* ArrowFunctionExpression (lines 417-422).
ArrowFunctionExpression ==
    /\ Visits("ArrowFunctionExpression")
    /\ lint' = SetHasProps(lint, Head(lint.queue))
    /\ UNCHANGED <<Script, table, navbar, hook, layout, router, store, viewport>>

\* FunctionDeclaration (lines 424-428).
FunctionDeclaration ==
    /\ Visits("FunctionDeclaration")
    /\ lint' = SetHasProps(lint, Head(lint.queue))
    /\ UNCHANGED <<Script, table, navbar, hook, layout, router, store, viewport>>

\* exportedName.startsWith('use') (line 444).
startsWithUse(name) == name[1] = "use"

\* exportedName[0] === exportedName[0].toUpperCase() (line 445): true of an
\* upper-case letter and of a character without case.
FirstIsUpperCased(name) == name[1] \in {"U", "_"}

\* 'ExportNamedDeclaration:exit' (lines 430-453).
ExportNamedDeclarationExit ==
    /\ Visits("ExportNamedDeclaration:exit")
    /\ LET node == Head(lint.queue)
           exportedName == IF node.decl \in {"VariableDeclaration", "FunctionDeclaration"}
                           THEN node.id ELSE <<>>
           report == /\ lint.isExport /\ lint.hasProps /\ ~lint.hasMemo
                     /\ node.decl # "none"
                     /\ exportedName # <<>>
                     /\ ~startsWithUse(exportedName)
                     /\ FirstIsUpperCased(exportedName)
       IN  lint' = [lint EXCEPT !.queue = Tail(@), !.isExport = FALSE,
                                !.reports = IF report THEN @ \cup {node.stmt} ELSE @]
    /\ UNCHANGED <<Script, table, navbar, hook, layout, router, store, viewport>>

\* Top-level statements of a component file.
COMPONENT == <<"U", "l">>

STATEMENT_SAMPLES ==
    <<  \* export const Card = (props) => <div />
       Statement(TRUE, "VariableDeclaration", COMPONENT, NoCallee,
                 "ArrowFunctionExpression", 1, <<>>),
        \* export const Card = memo((props) => <div />)
       Statement(TRUE, "VariableDeclaration", COMPONENT, Identifier("memo"),
                 "ArrowFunctionExpression", 1, <<>>),
        \* export const Card = React.memo((props) => <div />)
       Statement(TRUE, "VariableDeclaration", COMPONENT, MemberExpression("React", "memo"),
                 "ArrowFunctionExpression", 1, <<>>),
        \* export function Card(props) { ... }
       Statement(TRUE, "FunctionDeclaration", COMPONENT, NoCallee,
                 "FunctionDeclaration", 1, <<>>),
        \* export const useThing = (arg) => { ... }
       Statement(TRUE, "VariableDeclaration", <<"use", "U", "l">>, NoCallee,
                 "ArrowFunctionExpression", 1, <<>>),
        \* export const helper = (x) => x
       Statement(TRUE, "VariableDeclaration", <<"l">>, NoCallee,
                 "ArrowFunctionExpression", 1, <<>>),
        \* export const Logo = () => <svg />
       Statement(TRUE, "VariableDeclaration", COMPONENT, NoCallee,
                 "ArrowFunctionExpression", 0, <<>>),
        \* export const List = () => <ul>{items.map((item) => <li />)}</ul>
       Statement(TRUE, "VariableDeclaration", COMPONENT, NoCallee,
                 "ArrowFunctionExpression", 0, <<ArrowFunction(1)>>),
        \* export const Panel = (props) => { const Row = memo(RowView); ... }
       Statement(TRUE, "VariableDeclaration", COMPONENT, NoCallee,
                 "ArrowFunctionExpression", 1, <<Declarator(COMPONENT, Identifier("memo"))>>),
        \* export const Wide = function (props) { ... }
       Statement(TRUE, "VariableDeclaration", COMPONENT, NoCallee,
                 "FunctionExpression", 1, <<>>),
        \* const Local = (props) => <div />
       Statement(FALSE, "VariableDeclaration", COMPONENT, NoCallee,
                 "ArrowFunctionExpression", 1, <<>>) >>

RECURSIVE Files(_, _)
\* The sequences of at most n elements of the sequence samples.
Files(samples, n) ==
    IF n = 0 THEN {<<>>}
    ELSE Files(samples, n - 1)
         \cup {Append(f, samples[k]) : f \in Files(samples, n - 1), k \in 1..Len(samples)}

\* The rules and the other components are idle but lint.
InitLint(rule, files) ==
    /\ ScriptIdleOnly
    /\ table = NoTable /\ navbar = NoNavbar /\ hook = NoHook
    /\ layout = NoLayout /\ router = NoRouter /\ store = NoStore /\ viewport = "lg"
    /\ \E f \in files :
          lint = [NoLint EXCEPT !.rule = rule, !.file = f, !.queue = TraverseFile(f, 1)]

InitMemo == InitLint("require-react-memo", Files(STATEMENT_SAMPLES, MaxNodes))

NextMemo ==
    \/ ExportNamedDeclaration
    \/ VariableDeclarator
    \/ ArrowFunctionExpression
    \/ FunctionDeclaration
    \/ ExportNamedDeclarationExit

SpecMemo == InitMemo /\ [][NextMemo]_vars

\* The statement exports a PascalCase component (no 'use' hook) that takes
\* props and is not wrapped in memo or React.memo.
UnwrappedComponentWithProps(s) ==
    /\ s.exported
    /\ s.id[1] = "U"
    /\ s.fn # "none" /\ s.params > 0
    /\ s.callee \notin {Identifier("memo"), MemberExpression("React", "memo")}

\* C22: when the rule has walked the file, the reported exports are exactly
\* the exported PascalCase components with props that are not wrapped in
\* memo, whatever the other statements and the bodies contain.
C22_ReportedIffUnwrappedComponentWithProps ==
    (lint.rule = "require-react-memo" /\ lint.queue = <<>>) =>
        lint.reports = {i \in 1..Len(lint.file) : UnwrappedComponentWithProps(lint.file[i])}

\* The JSX elements of a file, for require-keyboard-handler.  An attribute
\* is its name, or UNDEFINED for a spread attribute, which has no name.
JSXOpeningElementNode(name, attributes) ==
    [Node("JSXOpeningElement") EXCEPT !.name = name, !.attributes = attributes]

ELEMENT_SAMPLES ==
    << JSXOpeningElementNode("div", <<"onClick">>),
       JSXOpeningElementNode("div", <<"onClick", "onKeyDown">>),
       JSXOpeningElementNode("div", <<"onKeyDown", "className", "onClick">>),
       JSXOpeningElementNode("div", <<"className">>),
       JSXOpeningElementNode("div", <<UNDEFINED, "onClick">>),
       JSXOpeningElementNode("button", <<"onClick">>),
       JSXOpeningElementNode("a", <<"onClick">>),
       JSXOpeningElementNode("Button", <<"onClick">>),
        \* <Menu.Item onClick={...}>: the name is a member expression
       JSXOpeningElementNode(UNDEFINED, <<"onClick">>) >>

\* node.attributes.some(attr => attr.name && attr.name.name === name)
\* (lines 207-213).
HasAttribute(node, name) ==
    \E k \in 1..Len(node.attributes) :
        node.attributes[k] # UNDEFINED /\ node.attributes[k] = name

\* Variant: native elements are not exempt.
requireKeyboardNativeToo(node) ==
    HasAttribute(node, "onClick") /\ ~HasAttribute(node, "onKeyDown")

\* The condition of the report (lines 207-218).
requireKeyboard(node) ==
    LET hasOnClick == HasAttribute(node, "onClick")
        hasOnKeyDown == HasAttribute(node, "onKeyDown")
        isNativeButton == node.name = "button" \/ node.name = "a"
    IN  hasOnClick /\ ~hasOnKeyDown /\ ~isNativeButton

RECURSIVE Numbered(_, _)
\* The elements of the file in source order, each with its position.
Numbered(file, i) ==
    IF i > Len(file) THEN <<>>
    ELSE <<[file[i] EXCEPT !.stmt = i]>> \o Numbered(file, i + 1)

\* JSXOpeningElement (lines 206-224).
JSXOpeningElement ==
    /\ Visits("JSXOpeningElement")
    /\ LET node == Head(lint.queue)
       IN  lint' = [lint EXCEPT !.queue = Tail(@),
                                !.reports = IF requireKeyboard(node)
                                            THEN @ \cup {node.stmt} ELSE @]
    /\ UNCHANGED <<Script, table, navbar, hook, layout, router, store, viewport>>

InitKeyboard ==
    /\ ScriptIdleOnly
    /\ table = NoTable /\ navbar = NoNavbar /\ hook = NoHook
    /\ layout = NoLayout /\ router = NoRouter /\ store = NoStore /\ viewport = "lg"
    /\ \E f \in Files(ELEMENT_SAMPLES, MaxNodes) :
          lint = [NoLint EXCEPT !.rule = "require-keyboard-handler", !.file = f,
                                !.queue = Numbered(f, 1)]

SpecKeyboard == InitKeyboard /\ [][JSXOpeningElement]_vars

\* The elements of the file the rule has visited so far.
Visited == {i \in 1..Len(lint.file) : i <= Len(lint.file) - Len(lint.queue)}

Attributes(e) == {e.attributes[k] : k \in 1..Len(e.attributes)}

\* C23: the rule reports an element exactly when it has an onClick
\* attribute, has no onKeyDown attribute, and is neither a native button
\* nor a native a; an element with both attributes is never reported.
C23_ReportedIffClickWithoutKey ==
    lint.rule = "require-keyboard-handler" =>
        /\ lint.reports =
               {i \in Visited : /\ "onClick" \in Attributes(lint.file[i])
                                /\ "onKeyDown" \notin Attributes(lint.file[i])
                                /\ lint.file[i].name \notin {"button", "a"}}
        /\ \A i \in lint.reports :
               ~({"onClick", "onKeyDown"} \subseteq Attributes(lint.file[i]))

C23_Witness ==
    /\ lint.rule = "require-keyboard-handler"
    /\ lint.queue = <<>>
    /\ Len(lint.file) = 2
    /\ lint.file[1].name = "button" /\ lint.file[2].name = "div"
    /\ Attributes(lint.file[2]) = {"onClick"}
    /\ lint.reports = {2}

(***************************************************************************)
(* layouts/AppLayout.tsx: the Navbar and the Sidebar around the page, with *)
(* the state sidebarOpen and navbarMenuOpen.  The Navbar is the component  *)
(* modelled above, now with the props AppLayout gives it.                  *)
(***************************************************************************)
BREAKPOINTS == <<"xs", "sm", "md", "lg">>

\* theme.breakpoints.down(key): the window is narrower than breakpoint key.
down(key, vp) ==
    \E i, j \in 1..Len(BREAKPOINTS) : BREAKPOINTS[i] = vp /\ BREAKPOINTS[j] = key /\ i < j

\* handleSidebarToggle (lines 191-193).
handleSidebarToggle(l) == [l EXCEPT !.sidebarOpen = ~@]

\* handleSidebarClose (lines 196-198).
handleSidebarClose(l) == [l EXCEPT !.sidebarOpen = FALSE]

\* Variant: the toggle of the navbar menu toggles the sidebar as well.
handleNavbarMenuToggleBoth(l) == [l EXCEPT !.navbarMenuOpen = ~@, !.sidebarOpen = ~@]

\* handleNavbarMenuToggle (lines 201-203).
handleNavbarMenuToggle(l) == [l EXCEPT !.navbarMenuOpen = ~@]

\* The Navbar as AppLayout renders it (lines 228-231), on a window of
\* breakpoint vp (Navbar line 360).
RenderNavbar(l, n, vp) ==
    [n EXCEPT !.onMenuClick = down("md", vp),
              !.menuOpen = IF l.navbarMenuOpen THEN "true" ELSE "false",
              !.isMobile = down("md", vp)]

RECURSIVE Times(_, _)
\* The state updates queued by k calls of onMenuClick, applied in order.
Times(l, k) == IF k = 0 THEN l ELSE Times(handleNavbarMenuToggle(l), k - 1)

LayoutRecord(l, type, key, path) ==
    [l EXCEPT !.events = @ + 1,
              !.event = [type |-> type, key |-> key, path |-> path],
              !.before = [sidebarOpen |-> layout.sidebarOpen,
                          navbarMenuOpen |-> layout.navbarMenuOpen]]

\* A handler of the Navbar has taken it to state after; AppLayout runs the
\* onMenuClick calls it made and renders again.
LayoutNavbarEvent(after, type, key, path) ==
    /\ layout.mounted
    /\ layout.events < MaxEvents
    /\ layout' = LayoutRecord(Times(layout, after.calls - navbar.calls), type, key, path)
    /\ navbar' = RenderNavbar(layout', after, viewport)
    /\ UNCHANGED <<Script, table, hook, lint, router, store, viewport>>

LayoutMenuButtonClick ==
    /\ navbar.isMobile
    /\ LayoutNavbarEvent(MenuButtonOnClick(navbar), "buttonclick", "", "")

LayoutMenuButtonKeyDown(key) ==
    /\ navbar.isMobile
    /\ LayoutNavbarEvent(handleMenuKeyDown(navbar, key), "buttonkeydown", key, "")

LayoutMenuItemClick(path) ==
    /\ isMenuOpen(navbar)
    /\ LayoutNavbarEvent(handleNavigate(navbar, path), "itemclick", "", path)

LayoutMenuItemKeyDown(path, key) ==
    /\ isMenuOpen(navbar)
    /\ LayoutNavbarEvent(IF key \in {"Enter", " "} THEN handleNavigate(navbar, path)
                                                   ELSE navbar,
                         "itemkeydown", key, path)

LayoutMenuOnClose ==
    /\ isMenuOpen(navbar)
    /\ LayoutNavbarEvent(handleMenuClose(navbar), "close", "", "")

LayoutDesktopLinkClick(path) ==
    /\ ~navbar.isMobile
    /\ LayoutNavbarEvent([navbar EXCEPT !.location = path], "linkclick", "", path)

\* The Sidebar calls its onToggle prop (line 264).
SidebarOnToggle ==
    /\ layout.mounted
    /\ layout.events < MaxEvents
    /\ layout' = LayoutRecord(handleSidebarToggle(layout), "sidebartoggle", "", "")
    /\ UNCHANGED <<Script, table, navbar, hook, lint, router, store, viewport>>

\* The Sidebar calls its onClose prop (line 263).
SidebarOnClose ==
    /\ layout.mounted
    /\ layout.events < MaxEvents
    /\ layout' = LayoutRecord(handleSidebarClose(layout), "sidebarclose", "", "")
    /\ UNCHANGED <<Script, table, navbar, hook, lint, router, store, viewport>>

\* The window is resized: useMediaQuery (line 186, Navbar line 360) gives a
\* new value and both components render again.
Resize(vp) ==
    /\ layout.mounted
    /\ vp # viewport
    /\ viewport' = vp
    /\ navbar' = RenderNavbar(layout, navbar, vp)
    /\ UNCHANGED <<Script, table, hook, lint, layout, router, store>>

NextLayout ==
    \/ LayoutMenuButtonClick
    \/ \E key \in KEYS : LayoutMenuButtonKeyDown(key)
    \/ \E i \in 1..Len(NAVBAR_LINKS) : LayoutMenuItemClick(NAVBAR_LINKS[i])
    \/ \E i \in 1..Len(NAVBAR_LINKS), key \in KEYS : LayoutMenuItemKeyDown(NAVBAR_LINKS[i], key)
    \/ LayoutMenuOnClose
    \/ \E i \in 1..Len(NAVBAR_LINKS) : LayoutDesktopLinkClick(NAVBAR_LINKS[i])
    \/ SidebarOnToggle
    \/ SidebarOnClose
    \/ \E i \in 1..Len(BREAKPOINTS) : Resize(BREAKPOINTS[i])

\* AppLayout is mounted at "/" on a window of any width (lines 184-188).
InitLayout ==
    /\ ScriptIdleOnly
    /\ table = NoTable /\ hook = NoHook
    /\ lint = NoLint /\ router = NoRouter /\ store = NoStore
    /\ \E i \in 1..Len(BREAKPOINTS) : viewport = BREAKPOINTS[i]
    /\ layout = [NoLayout EXCEPT !.mounted = TRUE]
    /\ navbar = RenderNavbar(layout, NoNavbar, viewport)

SpecLayout == InitLayout /\ [][NextLayout]_vars

\* The user closes the menu: an item is selected, or the menu is dismissed.
CloseAction(e) ==
    \/ e.type \in {"itemclick", "close"}
    \/ e.type = "itemkeydown" /\ e.key \in {"Enter", " "}

\* C24: whenever the menu of the Navbar in AppLayout is open, selecting an
\* item or dismissing the menu leaves it closed, also after the window has
\* changed between mobile and desktop width while the menu was open.
C24_CloseActionCloses ==
    [][(isMenuOpen(navbar) /\ layout'.events = layout.events + 1 /\ CloseAction(layout'.event))
          => ~isMenuOpen(navbar')]_vars

SidebarEvent(e) == e.type \in {"sidebartoggle", "sidebarclose"}

\* The menu button of the Navbar is activated.
MenuToggle(e) ==
    \/ e.type = "buttonclick"
    \/ e.type = "buttonkeydown" /\ e.key \in {"Enter", " "}

C30_Step ==
    layout'.events = layout.events + 1 =>
        LET e == layout'.event
        IN  /\ SidebarEvent(e) => layout'.navbarMenuOpen = layout.navbarMenuOpen
            /\ ~SidebarEvent(e) => layout'.sidebarOpen = layout.sidebarOpen
            /\ e.type = "sidebarclose" => ~layout'.sidebarOpen
            /\ (e.type = "sidebartoggle" /\ layout.event.type = "sidebartoggle")
                   => layout'.sidebarOpen = layout.before.sidebarOpen
            /\ (MenuToggle(e) /\ MenuToggle(layout.event))
                   => layout'.navbarMenuOpen = layout.before.navbarMenuOpen

\* C30: sidebarOpen and navbarMenuOpen start FALSE; an event of the sidebar
\* leaves navbarMenuOpen as it is and an event of the Navbar leaves
\* sidebarOpen as it is; closing the sidebar leaves it closed, however often;
\* two toggles in a row of either restore its value.
C30_Independent ==
    /\ (layout.mounted => ~layout.sidebarOpen /\ ~layout.navbarMenuOpen)
    /\ [][C30_Step]_vars

C30_Witness ==
    /\ layout.events = MaxEvents
    /\ layout.event.type = "sidebartoggle"
    /\ layout.before = [sidebarOpen |-> TRUE, navbarMenuOpen |-> TRUE]
    /\ ~layout.sidebarOpen /\ layout.navbarMenuOpen

(***************************************************************************)
(* routes/index.tsx (AppRoutes) and the navigation targets of the Navbar,  *)
(* the Sidebar and the call-to-action buttons of the Home page.            *)
(***************************************************************************)
\* The Route elements with a path of their own (lines 45-84), in order.
ROUTES ==
    << [path |-> "/", page |-> "Home"],
       [path |-> "/about", page |-> "About"],
       [path |-> "/services", page |-> "Services"],
       [path |-> "/contact", page |-> "Contact"],
       [path |-> "/login", page |-> "Login"] >>

SIDEBAR_LINKS == <<"/dashboard", "/patients", "/appointments", "/settings">>

CTA_BUTTONS == <<"/services", "/results", "/billing">>

Declared(path) == \E i \in 1..Len(ROUTES) : ROUTES[i].path = path

PageOf(path) == (CHOOSE r \in Range(ROUTES) : r.path = path).page

\* What <Routes> shows for a location: the page of the route with that
\* path, and for any other location the element of path="*",
\* <Navigate to="/" replace />, which puts the router at "/" (line 85).
Routes(path) ==
    IF Declared(path)
    THEN [location |-> path, page |-> PageOf(path), redirected |-> FALSE]
    ELSE [location |-> "/", page |-> PageOf("/"), redirected |-> TRUE]

\* navigate(path), or a click on a <Link to={path}>, and the render that
\* follows.
navigate(rt, path, via, key) ==
    LET r == Routes(path)
    IN  [location |-> r.location, page |-> r.page, requested |-> path,
         via |-> via, key |-> key, from |-> rt.location,
         redirected |-> r.redirected, events |-> rt.events + 1]

\* A link of the Navbar, which AppLayout shows on every page.
NavbarLinkClick(i) ==
    /\ router.events < MaxEvents
    /\ router' = navigate(router, NAVBAR_LINKS[i], "navbar", "")
    /\ UNCHANGED <<Script, table, navbar, hook, lint, layout, store, viewport>>

\* A link of the Sidebar, which AppLayout shows on every page (lines
\* 133-140 of the Sidebar).
SidebarLinkClick(i) ==
    /\ router.events < MaxEvents
    /\ router' = navigate(router, SIDEBAR_LINKS[i], "sidebar", "")
    /\ UNCHANGED <<Script, table, navbar, hook, lint, layout, store, viewport>>

\* handleCTAClick (Home, lines 100-105); the buttons are on the Home page.
CTAClick(i) ==
    /\ router.page = "Home"
    /\ router.events < MaxEvents
    /\ router' = navigate(router, CTA_BUTTONS[i], "cta", "")
    /\ UNCHANGED <<Script, table, navbar, hook, lint, layout, store, viewport>>

\* handleCTAKeyDown (Home, lines 108-116).
CTAKeyDown(i, key) ==
    /\ router.page = "Home"
    /\ router.events < MaxEvents
    /\ router' = IF key \in {"Enter", " "}
                 THEN navigate(router, CTA_BUTTONS[i], "cta", key)
                 ELSE [router EXCEPT !.events = @ + 1, !.via = "ignored", !.key = key,
                                     !.requested = router.location,
                                     !.from = router.location, !.redirected = FALSE]
    /\ UNCHANGED <<Script, table, navbar, hook, lint, layout, store, viewport>>

NextRoutes ==
    \/ \E i \in 1..Len(NAVBAR_LINKS) : NavbarLinkClick(i)
    \/ \E i \in 1..Len(SIDEBAR_LINKS) : SidebarLinkClick(i)
    \/ \E i \in 1..Len(CTA_BUTTONS) : CTAClick(i)
    \/ \E i \in 1..Len(CTA_BUTTONS), key \in KEYS : CTAKeyDown(i, key)

\* The application opened at a declared path.
InitRoutes ==
    /\ ScriptIdleOnly
    /\ table = NoTable /\ navbar = NoNavbar /\ hook = NoHook
    /\ lint = NoLint /\ layout = NoLayout /\ store = NoStore /\ viewport = "lg"
    /\ \E i \in 1..Len(ROUTES) :
          router = [NoRouter EXCEPT !.location = ROUTES[i].path, !.page = ROUTES[i].page,
                                    !.from = ROUTES[i].path]

SpecRoutes == InitRoutes /\ [][NextRoutes]_vars

\* C25: after a navbar link, a sidebar link or a call-to-action button has
\* been activated, the router is at the path of that link and shows the
\* page of a declared route; the wildcard route has not redirected.
C25_EveryTargetIsARoute ==
    router.via \in {"navbar", "sidebar", "cta"} =>
        /\ router.location = router.requested
        /\ ~router.redirected
        /\ Declared(router.requested)

(***************************************************************************)
(* PatientTable.tsx: which columns show at which width.  The sx value      *)
(* { xs: a, md: b } gives a from xs up and b from md up.                   *)
(***************************************************************************)
\* tableHeaders (lines 61-73).
tableHeaders ==
    <<"Patient Name", "Status", "Date of Birth", "Email", "Phone", "Last Visit",
      "Next Appointment", "Primary Physician">>

\* The breakpoint from which the body cell of a column is a table-cell
\* (lines 141-236): display { xs: 'none', <key>: 'table-cell' }, or no
\* display at all, which shows the cell at every width.
CellFrom(column) ==
    CASE column = "Date of Birth" -> "md"
      [] column = "Email" -> "lg"
      [] column = "Phone" -> "sm"
      [] column = "Next Appointment" -> "lg"
      [] column = "Primary Physician" -> "md"
      [] OTHER -> "xs"

\* The value of display: { xs: 'none', [key]: 'table-cell' } at width vp.
CellDisplay(column, vp) ==
    IF down(CellFrom(column), vp) THEN "none" ELSE "table-cell"

\* isMobile (line 58) and the display of a header cell (lines 253-271).
HeaderDisplay(header, vp) ==
    LET isMobile == down("sm", vp)
        isHiddenOnMobile ==
            \/ header = "Date of Birth" /\ isMobile
            \/ header = "Email" /\ isMobile
            \/ header = "Phone" /\ isMobile
            \/ header = "Next Appointment" /\ isMobile
            \/ header = "Primary Physician" /\ isMobile
    IN  IF isHiddenOnMobile THEN "none" ELSE "table-cell"

\* The window showing the table gets another width.
WindowResize(vp) ==
    /\ table.mounted
    /\ vp # viewport
    /\ viewport' = vp
    /\ UNCHANGED <<Script, table, navbar, hook, lint, layout, router, store>>

NextResponsive ==
    \/ RenderTable
    \/ \E i \in 1..Len(table.patients) : RowClick(i)
    \/ \E i \in 1..Len(table.patients), key \in KEYS : RowKeyDown(i, key)
    \/ \E i \in 1..Len(BREAKPOINTS) : WindowResize(BREAKPOINTS[i])

\* A table of one or more patients, on a wide window at first.
InitResponsive ==
    /\ ScriptIdleOnly
    /\ \E n \in 1..MaxRows, c \in BOOLEAN :
          table = [NoTable EXCEPT
                      !.patients = [i \in 1..n |-> MockPatient(i)],
                      !.onRowClick = c]
    /\ navbar = NoNavbar /\ hook = NoHook
    /\ lint = NoLint /\ layout = NoLayout /\ router = NoRouter /\ store = NoStore
    /\ viewport = "lg"

SpecResponsive == InitResponsive /\ [][NextResponsive]_vars

VisibleHeaders == {h \in Range(tableHeaders) : HeaderDisplay(h, viewport) = "table-cell"}

VisibleCells == {h \in Range(tableHeaders) : CellDisplay(h, viewport) = "table-cell"}

\* C26: at every width of the window, the header cells shown by a rendered
\* PatientTable are those of the columns whose body cells are shown.
C26_HeadersMatchCells ==
    (table.mounted /\ table.patients # <<>>) => VisibleHeaders = VisibleCells

MaxPending == 2

DATA_SAMPLES == {"a", "b"}

ERROR_SAMPLES == {NULL, "failed"}

\* A queued updater: the action that queued it and the argument it closed
\* over.
Updater(type, data, loading, error) ==
    [type |-> type, data |-> data, loading |-> loading, error |-> error]

\* Variant: clearData puts the whole state back to its initial value.
ApplyClearAll(before, u) ==
    CASE u.type = "setData" -> [before EXCEPT !.data = u.data]
      [] u.type = "clearData" -> InitialStoreState
      [] u.type = "setLoading" -> [before EXCEPT !.loading = u.loading]
      [] u.type = "setError" -> [before EXCEPT !.error = u.error]

\* The four updaters (lines 46, 50, 54, 58): prev => ({ ...prev, field }).
Apply(before, u) ==
    CASE u.type = "setData" -> [before EXCEPT !.data = u.data]
      [] u.type = "clearData" -> [before EXCEPT !.data = NULL]
      [] u.type = "setLoading" -> [before EXCEPT !.loading = u.loading]
      [] u.type = "setError" -> [before EXCEPT !.error = u.error]

RECURSIVE ApplyAll(_, _)
ApplyAll(before, queue) ==
    IF queue = <<>> THEN before ELSE ApplyAll(Apply(before, Head(queue)), Tail(queue))

\* setState(updater): the updater joins the queue.  last keeps, per field,
\* the value of the latest action that targeted the field.
setState(s, u, last) == [s EXCEPT !.pending = Append(@, u), !.last = last]

\* setData (lines 45-47).
setData(data) ==
    /\ store.mounted /\ Len(store.pending) < MaxPending
    /\ store' = setState(store, Updater("setData", data, FALSE, NULL),
                         [store.last EXCEPT !.data = data])
    /\ UNCHANGED <<Script, table, navbar, hook, lint, layout, router, viewport>>

\* clearData (lines 49-51).
clearData ==
    /\ store.mounted /\ Len(store.pending) < MaxPending
    /\ store' = setState(store, Updater("clearData", NULL, FALSE, NULL),
                         [store.last EXCEPT !.data = NULL])
    /\ UNCHANGED <<Script, table, navbar, hook, lint, layout, router, viewport>>

\* setLoading (lines 53-55).
setLoading(loading) ==
    /\ store.mounted /\ Len(store.pending) < MaxPending
    /\ store' = setState(store, Updater("setLoading", NULL, loading, NULL),
                         [store.last EXCEPT !.loading = loading])
    /\ UNCHANGED <<Script, table, navbar, hook, lint, layout, router, viewport>>

\* setError (lines 57-59).
setError(error) ==
    /\ store.mounted /\ Len(store.pending) < MaxPending
    /\ store' = setState(store, Updater("setError", NULL, FALSE, error),
                         [store.last EXCEPT !.error = error])
    /\ UNCHANGED <<Script, table, navbar, hook, lint, layout, router, viewport>>

\* React renders StoreProvider again: useState (line 38) returns the state
\* with the queued updaters applied.
RenderStore ==
    /\ store.mounted
    /\ store.pending # <<>>
    /\ store' = [store EXCEPT !.state = ApplyAll(@, store.pending), !.pending = <<>>,
                              !.flushed = Len(store.pending)]
    /\ UNCHANGED <<Script, table, navbar, hook, lint, layout, router, viewport>>

NextStore ==
    \/ \E data \in DATA_SAMPLES : setData(data)
    \/ clearData
    \/ \E loading \in BOOLEAN : setLoading(loading)
    \/ \E error \in ERROR_SAMPLES : setError(error)
    \/ RenderStore

InitStore ==
    /\ ScriptIdleOnly
    /\ table = NoTable /\ navbar = NoNavbar /\ hook = NoHook
    /\ lint = NoLint /\ layout = NoLayout /\ router = NoRouter /\ viewport = "lg"
    /\ store = [NoStore EXCEPT !.mounted = TRUE]

SpecStore == InitStore /\ [][NextStore]_vars

\* The fields an updater may change.
Targets(u) ==
    CASE u.type \in {"setData", "clearData"} -> {"data"}
      [] u.type = "setLoading" -> {"loading"}
      [] u.type = "setError" -> {"error"}

\* C29: an updater changes its own field only, applied to any state; and
\* once the queued updaters are applied, each of data, loading and error
\* holds the value of the latest action that targeted it, or its initial
\* value when none did.
C29_LastActionWinsPerField ==
    /\ \A k \in 1..Len(store.pending) :
           \A f \in {"data", "loading", "error"} \ Targets(store.pending[k]) :
               Apply(store.state, store.pending[k])[f] = store.state[f]
    /\ ApplyAll(store.state, store.pending) = store.last
    /\ store.pending = <<>> => store.state = store.last

C29_Witness ==
    /\ store.pending = <<>>
    /\ store.flushed = MaxPending
    /\ store.state = [data |-> NULL, loading |-> TRUE, error |-> "failed"]
====
